---- MODULE Spec2Model ----
(***************************************************************************)
(* Question-Reservation (app.js): the ticket / student store, its write    *)
(* path (upsert, delete), the identity and limit rules and the handlers    *)
(* that call them, for several browser clients sharing one remote store    *)
(* or each running on its own local persistence.                           *)
(*                                                                         *)
(* Conventions                                                             *)
(*   - a JS object is a function from key strings to values; a missing     *)
(*     key is a key outside DOMAIN;                                        *)
(*   - null timestamps and null / empty ids are 0 (ids and the clock       *)
(*     start at 1);                                                        *)
(*   - strings that the code transforms (initials, birthday, class) are    *)
(*     sequences of one-character strings;                                 *)
(*   - questionReason stands for the student-authored content fields       *)
(*     (subject, purpose, checkedMaterials, questionReason, images),       *)
(*     which collectFormData copies from the form in the same way.         *)
(***************************************************************************)
EXTENDS Integers, Sequences, FiniteSets, TLC

\* ------------------------------------------------------------------------
\* Bounds
\* ------------------------------------------------------------------------
\* number of ticket ids generateUUID may hand out
MaxTickets == 5
\* number of remote writes of students one client may have awaiting their
\* outcome
MaxInflight == 1
\* number of remote writes of tickets one client may have awaiting their
\* outcome
MaxTicketsInflight == 2
\* number of student ids generateUUID may hand out
MaxStudents == 2
\* largest value Date.now() returns to a write; the clock advances between
\* any two writes
MaxTime == 3
\* longest collection drawn for the function-level specification
MaxLen == 2

\* ------------------------------------------------------------------------
\* Program constants
\* ------------------------------------------------------------------------
MAX_TICKETS_PER_STUDENT == 3

\* the client whose handlers are followed step by step; the other clients of
\* the same store appear through the operations they complete (Peer...)
Clients == {"c1"}
\* the students that hold tickets
StudentIds == {1, 2}
NoId == 0

\* ------------------------------------------------------------------------
\* Generic helpers for JS objects and arrays
\* ------------------------------------------------------------------------
\* { ...a, ...b }
Spread(a, b) ==
  [k \in (DOMAIN a) \cup (DOMAIN b) |-> IF k \in DOMAIN b THEN b[k] ELSE a[k]]

\* obj.key = value
SetField(obj, key, value) ==
  [k \in (DOMAIN obj) \cup {key} |-> IF k = key THEN value ELSE obj[k]]

\* array.findIndex(x => x.id === id), 0 standing for -1
RECURSIVE FindIndexFrom(_, _, _)
FindIndexFrom(arr, id, i) ==
  IF i > Len(arr) THEN 0
  ELSE IF arr[i]["id"] = id THEN i
  ELSE FindIndexFrom(arr, id, i + 1)

findIndex(arr, id) == FindIndexFrom(arr, id, 1)

\* array.filter(x => x.id !== id)
RECURSIVE FilterOutId(_, _)
FilterOutId(arr, id) ==
  IF arr = <<>> THEN <<>>
  ELSE IF Head(arr)["id"] = id THEN FilterOutId(Tail(arr), id)
  ELSE <<Head(arr)>> \o FilterOutId(Tail(arr), id)

\* ------------------------------------------------------------------------
\* Strings, as sequences of characters
\* ------------------------------------------------------------------------
\* one character of String.prototype.toUpperCase
UpperOf(ch) ==
  IF ch = "a" THEN "A" ELSE IF ch = "b" THEN "B" ELSE IF ch = "s" THEN "S" ELSE ch

\* str.toUpperCase()
toUpperCase(str) == [i \in 1..Len(str) |-> UpperOf(str[i])]

RECURSIVE TrimStart(_)
TrimStart(str) ==
  IF str # <<>> /\ Head(str) = " " THEN TrimStart(Tail(str)) ELSE str

RECURSIVE TrimEnd(_)
TrimEnd(str) ==
  IF str # <<>> /\ str[Len(str)] = " " THEN TrimEnd(SubSeq(str, 1, Len(str) - 1)) ELSE str

\* str.trim()
trim(str) == TrimEnd(TrimStart(str))

\* /^\d{4}$/.test(str)
TestFourDigits(str) ==
  /\ Len(str) = 4
  /\ \A i \in 1..Len(str) : str[i] \in {"0", "1", "2", "3", "4", "5", "6", "7", "8", "9"}

\* ------------------------------------------------------------------------
\* Tickets: pure parts of the write path and of the limit rule
\* ------------------------------------------------------------------------
\* getTicketById: the index of the record, 0 for null
getTicketById(cache, id) == findIndex(cache, id)

\* upsertTicket that stamps createdAt on every write
UpsertTicketStampsCreatedAt(cache, ticket, t) ==
  LET existingIndex == findIndex(cache, ticket["id"])
  IN IF existingIndex > 0
     THEN Spread(Spread(cache[existingIndex], ticket), [createdAt |-> t, updatedAt |-> t])
     ELSE Spread(ticket, [createdAt |-> t, updatedAt |-> t])

\* upsertTicket that writes its argument without the fields of the record held
UpsertTicketWithoutMerge(cache, ticket, t) ==
  Spread(ticket, [createdAt |-> t, updatedAt |-> t])

\* upsertTicket, lines 170-177: the record that is written
UpsertTicketRecord(cache, ticket, t) ==
  LET existingIndex == findIndex(cache, ticket["id"])
  IN IF existingIndex > 0
     THEN Spread(Spread(cache[existingIndex], ticket), [updatedAt |-> t])
     ELSE Spread(ticket, [createdAt |-> t, updatedAt |-> t])

\* upsertTicket, lines 188-192: the in-memory array after a local write
UpsertTicketLocal(cache, ticket, t) ==
  LET existingIndex == findIndex(cache, ticket["id"])
      merged == UpsertTicketRecord(cache, ticket, t)
  IN IF existingIndex > 0
     THEN [cache EXCEPT ![existingIndex] = merged]
     ELSE Append(cache, merged)

\* getActiveTicketCount with the status test left out
RECURSIVE CountTicketsOfAnyStatus(_, _, _)
CountTicketsOfAnyStatus(cache, studentId, excludeId) ==
  IF cache = <<>> THEN 0
  ELSE (IF /\ Head(cache)["studentId"] = studentId
           /\ Head(cache)["id"] # excludeId
        THEN 1 ELSE 0)
       + CountTicketsOfAnyStatus(Tail(cache), studentId, excludeId)

\* getActiveTicketCount: filter(...).length, computed element by element
RECURSIVE getActiveTicketCount(_, _, _)
getActiveTicketCount(cache, studentId, excludeId) ==
  IF cache = <<>> THEN 0
  ELSE (IF /\ Head(cache)["studentId"] = studentId
           /\ Head(cache)["status"] = "submitted"
           /\ Head(cache)["id"] # excludeId
        THEN 1 ELSE 0)
       + getActiveTicketCount(Tail(cache), studentId, excludeId)

\* checkTicketLimit with > for >=
LimitOffByOne(cache, studentId, editingId) ==
  ~(getActiveTicketCount(cache, studentId, editingId) > MAX_TICKETS_PER_STUDENT)

\* checkTicketLimit: TRUE when the submission may proceed
checkTicketLimit(cache, studentId, editingId) ==
  ~(getActiveTicketCount(cache, studentId, editingId) >= MAX_TICKETS_PER_STUDENT)

\* collectFormData followed by formData.status = 'submitted' (submitTicket)
collectFormData(id, sess, reason) ==
  [id |-> id, studentId |-> sess, questionReason |-> reason,
   teacherMemo |-> "", doneAt |-> 0, status |-> "submitted"]

\* ------------------------------------------------------------------------
\* Students: pure parts of the lookup, of the duplicate check and of the write
\* ------------------------------------------------------------------------
\* array.find(pred), as the index of the first element of arr among hits,
\* 0 for undefined
RECURSIVE FindFrom(_, _, _)
FindFrom(arr, hits, i) ==
  IF i > Len(arr) THEN 0
  ELSE IF i \in hits THEN i
  ELSE FindFrom(arr, hits, i + 1)

\* getStudentById: the index of the record, 0 for null
getStudentById(cache, id) == findIndex(cache, id)

\* findStudent with the initials compared as they are
FindStudentExact(cache, className, initials, birthday) ==
  FindFrom(cache,
           {i \in 1..Len(cache) :
              /\ cache[i]["className"] = className
              /\ cache[i]["initials"] = initials
              /\ cache[i]["birthday"] = birthday},
           1)

\* findStudent: the index of the record, 0 for null
findStudent(cache, className, initials, birthday) ==
  FindFrom(cache,
           {i \in 1..Len(cache) :
              /\ cache[i]["className"] = className
              /\ toUpperCase(cache[i]["initials"]) = toUpperCase(initials)
              /\ cache[i]["birthday"] = birthday},
           1)

\* the duplicate check of saveStudent with the id test left out
DuplicateOfAnyId(cache, className, initials, id) ==
  FindFrom(cache,
           {i \in 1..Len(cache) :
              /\ cache[i]["className"] = className
              /\ toUpperCase(cache[i]["initials"]) = initials},
           1)

\* saveStudent, lines 1585-1590: students.find(...), initials already in
\* upper case; the index of the duplicate, 0 for undefined
FindDuplicate(cache, className, initials, id) ==
  FindFrom(cache,
           {i \in 1..Len(cache) :
              /\ cache[i]["className"] = className
              /\ toUpperCase(cache[i]["initials"]) = initials
              /\ cache[i]["id"] # id},
           1)

\* upsertStudent that appends whether or not the id is held
UpsertStudentAppendOnly(cache, student) ==
  Append(cache, student)

\* upsertStudent, lines 270-275: the in-memory array after a local write
UpsertStudentLocal(cache, student) ==
  LET existingIndex == findIndex(cache, student["id"])
  IN IF existingIndex > 0
     THEN [cache EXCEPT ![existingIndex] = Spread(cache[existingIndex], student)]
     ELSE Append(cache, student)

\* ------------------------------------------------------------------------
\* Local persistence: JSON.stringify / JSON.parse of a collection
\* ------------------------------------------------------------------------
\* the order in which the code creates the keys of a ticket / a student
TicketKeys ==
  <<"id", "studentId", "questionReason", "teacherMemo", "doneAt", "status",
    "createdAt", "updatedAt", "completedByStudent">>
StudentKeys == <<"id", "className", "initials", "birthday">>

\* one JSON value; every token has the same shape
JsonNumber(v) == [t |-> "number", n |-> v, s |-> "", cs |-> <<>>]
JsonString(v) == [t |-> "string", n |-> 0, s |-> v, cs |-> <<>>]
JsonChars(v) == [t |-> "string", n |-> 0, s |-> "", cs |-> v]
JsonNull == [t |-> "null", n |-> 0, s |-> "", cs |-> <<>>]
JsonTrue == [t |-> "true", n |-> 0, s |-> "", cs |-> <<>>]
JsonFalse == [t |-> "false", n |-> 0, s |-> "", cs |-> <<>>]

\* the JS type behind each key of the model's records
IsNullableNumberKey(k) == k \in {"doneAt"}
IsNumberKey(k) == k \in {"id", "studentId", "createdAt", "updatedAt"}
IsBooleanKey(k) == k \in {"completedByStudent"}
IsCharsKey(k) == k \in {"className", "initials", "birthday"}

JsonEncode(k, v) ==
  IF IsNullableNumberKey(k) THEN (IF v = 0 THEN JsonNull ELSE JsonNumber(v))
  ELSE IF IsNumberKey(k) THEN JsonNumber(v)
  ELSE IF IsBooleanKey(k) THEN (IF v THEN JsonTrue ELSE JsonFalse)
  ELSE IF IsCharsKey(k) THEN JsonChars(v)
  ELSE JsonString(v)

JsonDecode(k, tok) ==
  IF tok.t = "null" THEN 0
  ELSE IF tok.t = "number" THEN tok.n
  ELSE IF tok.t = "true" THEN TRUE
  ELSE IF tok.t = "false" THEN FALSE
  ELSE IF IsCharsKey(k) THEN tok.cs
  ELSE tok.s

\* JSON.stringify of one object with the keys that hold null left out
RECURSIVE StringifyWithoutNull(_, _)
StringifyWithoutNull(obj, keys) ==
  IF keys = <<>> THEN <<>>
  ELSE (IF Head(keys) \in DOMAIN obj /\ JsonEncode(Head(keys), obj[Head(keys)]) # JsonNull
        THEN <<[k |-> Head(keys), v |-> JsonEncode(Head(keys), obj[Head(keys)])]>>
        ELSE <<>>)
       \o StringifyWithoutNull(obj, Tail(keys))

\* JSON.stringify of one object: its own keys in creation order
RECURSIVE StringifyObject(_, _)
StringifyObject(obj, keys) ==
  IF keys = <<>> THEN <<>>
  ELSE (IF Head(keys) \in DOMAIN obj
        THEN <<[k |-> Head(keys), v |-> JsonEncode(Head(keys), obj[Head(keys)])]>>
        ELSE <<>>)
       \o StringifyObject(obj, Tail(keys))

\* JSON.stringify(array)
JSONstringify(arr, keys) == [i \in 1..Len(arr) |-> StringifyObject(arr[i], keys)]

\* JSON.parse of one object
ParseObject(pairs) ==
  [k \in {pairs[j].k : j \in 1..Len(pairs)} |->
     LET j == CHOOSE j \in 1..Len(pairs) : pairs[j].k = k
     IN JsonDecode(k, pairs[j].v)]

\* JSON.parse(text)
JSONparse(text) == [i \in 1..Len(text) |-> ParseObject(text[i])]

\* localStorage.getItem(key) === null
NoItem == [present |-> FALSE, text |-> <<>>]
\* localStorage.setItem(key, JSON.stringify(collection))
setItem(arr, keys) == [present |-> TRUE, text |-> JSONstringify(arr, keys)]

\* a token that is no JSON value, as a write that was cut off leaves it
JsonBad == [t |-> "bad", n |-> 0, s |-> "", cs |-> <<>>]

\* JSON.parse(text) returns: every token of the text is a JSON value;
\* otherwise it throws a SyntaxError
Parses(text) ==
  \A i \in 1..Len(text) : \A j \in 1..Len(text[i]) : text[i][j].v.t # "bad"

\* a blob that JSON.parse refuses
CorruptItem ==
  [present |-> TRUE,
   text |-> <<<<[k |-> "id", v |-> JsonNumber(1)], [k |-> "status", v |-> JsonBad]>>>>]

\* loadTicketsFromLocal without its try / catch, reading what it can
LoadTicketsWithoutCatch(item) == IF item.present THEN JSONparse(item.text) ELSE <<>>

\* loadTicketsFromLocal: data ? JSON.parse(data) : [], and [] from the catch
loadTicketsFromLocal(item) ==
  IF item.present
  THEN (IF Parses(item.text) THEN JSONparse(item.text) ELSE <<>>)
  ELSE <<>>

\* loadStudentsFromLocal: data ? JSON.parse(data) : [], and [] from the catch
loadStudentsFromLocal(item) ==
  IF item.present
  THEN (IF Parses(item.text) THEN JSONparse(item.text) ELSE <<>>)
  ELSE <<>>

\* ------------------------------------------------------------------------
\* Remote store: one path per id; a 'value' event carries Object.values(data)
\* ------------------------------------------------------------------------
\* a path holds <<>> (nothing) or <<record>>
RECURSIVE ObjectValuesFrom(_, _)
ObjectValuesFrom(data, i) ==
  IF i \notin DOMAIN data THEN <<>>
  ELSE data[i] \o ObjectValuesFrom(data, i + 1)

ObjectValues(data) == ObjectValuesFrom(data, 1)

\* the in-memory record with this id, as <<>> or <<record>>
Lookup(cache, id) ==
  IF findIndex(cache, id) > 0 THEN <<cache[findIndex(cache, id)]>> ELSE <<>>

\* ------------------------------------------------------------------------
\* State
\* ------------------------------------------------------------------------
VARIABLES
  configured,                  \* isFirebaseConfigured() of the deployed build
  database,                    \* per client: database is non-null
  firebaseReady,               \* per client
  dataLoadedCallbacks,         \* per client: the callbacks waitForData queued
  loading,                     \* per client: how far initializeFirebaseData is:
                               \* "document" before DOMContentLoaded, "fetching"
                               \* while the initial fetch is pending, "settled"
  invoked,                     \* per client: how many times the callback passed
                               \* to waitForData has been called
  refreshed,                   \* per client: a listener has called
                               \* refreshCurrentView since the document loaded
  syncError,                   \* per client: the error callback of a
                               \* subscription has called console.error
  teacherPasswordCache,        \* per client, "" for null
  localPassword,               \* per client: localStorage[TEACHER_PASSWORD_KEY],
                               \* "" when absent
  remotePassword,              \* remote store, path settings/teacherPassword,
                               \* "" when absent
  pendingPassword,             \* per client: a 'value' event on the password is due
  passwordModal,               \* per client: #password-change-modal is visible
  pendingHash,                 \* per client: the hashchange event that
                               \* renderStudentDetail queued by its navigateTo
                               \* and that is not handled yet
  now,                         \* Date.now()
  nextTicketId,                \* the next id generateUUID hands out for a ticket
  nextStudentId,               \* the next id generateUUID hands out for a student
  remoteTickets,               \* remote store, path tickets/{id}
  remoteStudents,              \* remote store, path students/{id}
  ticketsCache,                \* per client
  studentsCache,               \* per client
  localTickets,                \* per client: localStorage[STORAGE_KEY]
  localStudents,               \* per client: localStorage[STUDENTS_KEY]
  pendingTickets,              \* per client: a 'value' event on tickets is due
  pendingStudents,             \* per client: a 'value' event on students is due
  inflight,                    \* per client: remote writes awaiting their outcome
  studentSession,              \* per client: session.id, NoId when absent
  teacherSession,              \* per client: getTeacherSession()
  page,                        \* per client: the page of location.hash
  studentFooter,               \* per client: the buttons of #student-detail-footer
                               \* the user can reach: "none" while the page is hidden
  \* The next three are kept per client for as long as a handler can read
  \* them: each is read only by the buttons of its page, and the rendering that
  \* shows the page assigns it first, so it is NoId while the page is hidden.
  currentStudentDetailTicketId,
  currentEditingTicketId,
  currentDetailTicketId,
  confirmOpen,                 \* per client: #confirm-modal is visible
  formReason,                  \* per client: the content the open modal confirms
  teacherFooter,               \* per client: the buttons of #teacher-detail-footer
                               \* the user can reach: "none" while the page is hidden
  studentModal,                \* per client: #student-modal, its hidden id field
  toast,                       \* per client: what its last handler passed to
                               \* showToast, "" when it showed nothing
  fn                           \* function-level specification: call and result

startupVars == <<firebaseReady, dataLoadedCallbacks, loading, invoked>>
passwordVars ==
  <<teacherPasswordCache, localPassword, remotePassword, pendingPassword, passwordModal>>
buildVars ==
  <<configured, database, startupVars, refreshed, syncError, passwordVars, pendingHash>>
ticketStore == <<remoteTickets, localTickets, pendingTickets>>
sessionVars == <<studentSession, teacherSession>>
viewVars ==
  <<page, studentFooter, teacherFooter, currentStudentDetailTicketId,
    currentDetailTicketId, currentEditingTicketId>>
formVars == <<confirmOpen, formReason>>
\* the state of student management
studentSide ==
  <<nextStudentId, remoteStudents, studentsCache, localStudents,
    pendingStudents, studentModal>>
vars ==
  <<configured, database, firebaseReady, dataLoadedCallbacks, loading, invoked,
    refreshed, syncError, teacherPasswordCache, localPassword, remotePassword,
    pendingPassword, passwordModal, pendingHash, now, nextTicketId, nextStudentId,
    remoteTickets,
    remoteStudents, ticketsCache, studentsCache, localTickets, localStudents,
    pendingTickets, pendingStudents, inflight, studentSession, teacherSession,
    page, studentFooter, currentStudentDetailTicketId, currentEditingTicketId,
    confirmOpen, formReason, currentDetailTicketId, teacherFooter,
    studentModal, toast, fn>>

\* isFirebaseConfigured() && database
RemoteMode(c) == configured /\ database[c]

\* what the form's content fields may hold when the student asks to confirm;
\* "" fails validateForm
FormInputs == {"", "q1"}
\* what the teacher may have typed into the memo textarea
MemoInputs == {"m1"}

NoCall == [op |-> "none"]

\* no hashchange event of a refused detail page is queued
NoHash == [page |-> "", editId |-> NoId]

\* the builds a run starts from: with the remote store or with localStorage
\* only. sessionStorage holds the session of student 1 and the teacher session
Sessions ==
  {[remote |-> r, student |-> [c \in Clients |-> 1], teacher |-> [c \in Clients |-> TRUE],
    password |-> ""] :
     r \in BOOLEAN}

\* a ticket as an earlier run left it in the store
StoredTicket(id, studentId) ==
  [id |-> id, studentId |-> studentId, questionReason |-> "q1", teacherMemo |-> "",
   doneAt |-> 0, status |-> "submitted", createdAt |-> 1, updatedAt |-> 1]

\* the ticket collections a run starts from: two open tickets of student 1,
\* or three of them beside one of student 2
StoredTickets ==
  {<<StoredTicket(1, 1), StoredTicket(2, 1)>>,
   <<StoredTicket(1, 1), StoredTicket(2, 1), StoredTicket(3, 1), StoredTicket(4, 2)>>}

\* a student as an earlier run registered it
StoredStudent(id, className, initials) ==
  [id |-> id, className |-> className, initials |-> initials,
   birthday |-> <<"0", "1", "0", "1">>]

\* the student collections a run starts from: none, or one student
StoredStudents == {<<>>, <<StoredStudent(1, <<"4", "S">>, <<"A">>)>>}

InitWith(l, stored, students) ==
  /\ configured = l.remote
  /\ database = [c \in Clients |-> l.remote]
  /\ firebaseReady = [c \in Clients |-> TRUE]
  /\ dataLoadedCallbacks = [c \in Clients |-> <<>>]
  /\ loading = [c \in Clients |-> "settled"]
  /\ invoked = [c \in Clients |-> 1]
  /\ refreshed = [c \in Clients |-> FALSE]
  /\ syncError = [c \in Clients |-> FALSE]
  \* l.password: the password an earlier run stored; in remote mode the
  \* listener has delivered it
  /\ remotePassword = (IF l.remote THEN l.password ELSE "")
  /\ localPassword = [c \in Clients |-> l.password]
  /\ teacherPasswordCache = [c \in Clients |-> IF l.remote THEN l.password ELSE ""]
  /\ pendingPassword = [c \in Clients |-> FALSE]
  /\ passwordModal = [c \in Clients |-> FALSE]
  /\ pendingHash = [c \in Clients |-> NoHash]
  /\ now = 2
  /\ nextTicketId = Len(stored) + 1
  /\ nextStudentId = Len(students) + 1
  /\ remoteTickets =
       [i \in 1..MaxTickets |-> IF l.remote /\ i <= Len(stored) THEN <<stored[i]>> ELSE <<>>]
  /\ remoteStudents =
       [i \in 1..MaxStudents |->
          IF l.remote /\ i <= Len(students) THEN <<students[i]>> ELSE <<>>]
  /\ localTickets =
       [c \in Clients |-> IF l.remote \/ stored = <<>> THEN NoItem
                          ELSE setItem(stored, TicketKeys)]
  /\ ticketsCache =
       [c \in Clients |-> IF l.remote THEN ObjectValues(remoteTickets)
                          ELSE loadTicketsFromLocal(localTickets[c])]
  /\ localStudents =
       [c \in Clients |-> IF l.remote \/ students = <<>> THEN NoItem
                          ELSE setItem(students, StudentKeys)]
  /\ studentsCache =
       [c \in Clients |-> IF l.remote THEN ObjectValues(remoteStudents)
                          ELSE loadStudentsFromLocal(localStudents[c])]
  /\ pendingTickets = [c \in Clients |-> FALSE]
  /\ pendingStudents = [c \in Clients |-> FALSE]
  /\ inflight = [c \in Clients |-> <<>>]
  /\ studentSession = l.student
  /\ teacherSession = l.teacher
  /\ page = [c \in Clients |-> "top"]
  /\ studentFooter = [c \in Clients |-> "none"]
  /\ currentStudentDetailTicketId = [c \in Clients |-> NoId]
  /\ currentEditingTicketId = [c \in Clients |-> NoId]
  /\ confirmOpen = [c \in Clients |-> FALSE]
  /\ formReason = [c \in Clients |-> ""]
  /\ currentDetailTicketId = [c \in Clients |-> NoId]
  /\ teacherFooter = [c \in Clients |-> "none"]
  /\ studentModal = [c \in Clients |-> [open |-> FALSE, id |-> NoId]]
  /\ toast = [c \in Clients |-> ""]
  /\ fn = NoCall

Init == \E l \in Sessions, stored \in StoredTickets : InitWith(l, stored, <<>>)

\* ------------------------------------------------------------------------
\* Helpers of the handlers
\* ------------------------------------------------------------------------
\* showToast(message) by a handler of c; Toast(c, "") when it shows nothing
Toast(c, message) == toast' = [toast EXCEPT ![c] = message]

\* what a hidden page leaves to read
Hidden == [sFoot |-> "none", tFoot |-> "none", sId |-> NoId, tId |-> NoId, eId |-> NoId]

\* the same while #confirm-modal stays open: its send button still reads
\* currentEditingTicketId
Hide(c) ==
  [Hidden EXCEPT !.eId = IF confirmOpen[c] THEN currentEditingTicketId[c] ELSE NoId]

\* handleRouting shows page p of c, rendered as v; every other page is hidden
Show(c, p, v) ==
  /\ page' = [page EXCEPT ![c] = p]
  /\ studentFooter' = [studentFooter EXCEPT ![c] = v.sFoot]
  /\ teacherFooter' = [teacherFooter EXCEPT ![c] = v.tFoot]
  /\ currentStudentDetailTicketId' = [currentStudentDetailTicketId EXCEPT ![c] = v.sId]
  /\ currentDetailTicketId' = [currentDetailTicketId EXCEPT ![c] = v.tId]
  /\ currentEditingTicketId' = [currentEditingTicketId EXCEPT ![c] = v.eId]

Stay == UNCHANGED viewVars

\* ------------------------------------------------------------------------
\* The write path of a ticket, as its callers see it
\* ------------------------------------------------------------------------
\* upsertTicket in local mode: the array and localStorage after the call
LocalUpsertTicket(c, cache, ticket) ==
  /\ now <= MaxTime
  /\ now' = now + 1
  /\ ticketsCache' = [ticketsCache EXCEPT ![c] = UpsertTicketLocal(cache, ticket, now)]
  /\ localTickets' =
       [localTickets EXCEPT ![c] = setItem(UpsertTicketLocal(cache, ticket, now), TicketKeys)]

\* the write of this ticket id that is last in the queue q, as <<>> or
\* <<[rec, before]>>
RECURSIVE WriteAhead(_, _)
WriteAhead(q, id) ==
  IF q = <<>> THEN <<>>
  ELSE IF q[Len(q)].rec["id"] = id
  THEN <<[rec |-> q[Len(q)].rec, before |-> q[Len(q)].base]>>
  ELSE WriteAhead(SubSeq(q, 1, Len(q) - 1), id)

\* upsertTicket in remote mode up to its await: set(ticket) is issued.
\* before: the in-memory record as it was when the caller began. Kept with
\* the write for the properties: base, the same, which a later snapshot does
\* not refresh, and other, the write of the same id that is under way
RemoteUpsertTicket(c, cache, ticket, op, before) ==
  /\ Len(inflight[c]) < MaxTicketsInflight
  /\ now <= MaxTime
  /\ now' = now + 1
  /\ inflight' =
       [inflight EXCEPT ![c] =
          Append(@, [op |-> op, rec |-> UpsertTicketRecord(cache, ticket, now),
                     before |-> before, base |-> before,
                     other |-> WriteAhead(inflight[c], ticket["id"])])]

TicketOps == {"submitTicket", "completeStudentTicket", "completeTicket", "saveTeacherMemo"}

\* ------------------------------------------------------------------------
\* Student handlers
\* ------------------------------------------------------------------------
\* renderStudentDetail refuses: the ticket is missing or of another student
Refused(c, cache, id) ==
  LET idx == getTicketById(cache, id)
  IN idx = 0 \/ (idx > 0 /\ cache[idx]["studentId"] # studentSession[c])

\* renderStudentDetail(id), the session being present: the ticket is shown,
\* or, when it is refused, the list, once the hashchange of navigateTo is
\* handled
renderStudentDetail(c, cache, id) ==
  LET idx == getTicketById(cache, id)
  IN IF Refused(c, cache, id)
     THEN /\ Toast(c, "notFound")
          /\ Show(c, "student-mypage", Hide(c))
     ELSE /\ Toast(c, "")
          /\ Show(c, "student-detail",
                  [Hide(c) EXCEPT
                     !.sId = id,
                     !.sFoot = IF cache[idx]["status"] = "done" THEN "done" ELSE "open"])

\* location.hash = #student-detail?id=..., handleRouting, renderStudentDetail(id).
\* While the page is shown, the id in its edit button is
\* currentStudentDetailTicketId: both come from the same rendering.
OpenStudentDetail(c, id) ==
  /\ studentSession[c] # NoId
  /\ ~confirmOpen[c]
  /\ ~(page[c] = "student-detail" /\ currentStudentDetailTicketId[c] = id)
  /\ renderStudentDetail(c, ticketsCache[c], id)
  /\ UNCHANGED <<buildVars, now, sessionVars, studentSide, fn, nextTicketId, ticketStore,
                 ticketsCache, inflight, formVars>>

\* location.hash = #student, handleRouting, initStudentPage
OpenNewForm(c) ==
  /\ studentSession[c] # NoId
  /\ ~confirmOpen[c]
  /\ page[c] # "student"
  /\ Show(c, "student", Hidden)
  /\ Toast(c, "")
  /\ UNCHANGED <<buildVars, now, sessionVars, studentSide, fn, nextTicketId, ticketStore,
                 ticketsCache, inflight, formVars>>

\* line 985: the id the edit button of the footer was rendered with. A refused
\* rendering assigns currentStudentDetailTicketId and leaves the footer, so
\* until the queued hashchange is handled the button holds the id shown before
EditButtonId(c) ==
  IF pendingHash[c].page # "" THEN pendingHash[c].editId
  ELSE currentStudentDetailTicketId[c]

\* the edit button of the detail footer: editTicket(id), with its timeout
editTicket(c) ==
  /\ page[c] = "student-detail"
  /\ studentFooter[c] = "open"
  /\ ~confirmOpen[c]
  /\ LET id == EditButtonId(c)
         idx == getTicketById(ticketsCache[c], id)
     IN IF idx = 0
        THEN Toast(c, "notFound") /\ Stay
        ELSE Toast(c, "") /\ Show(c, "student", [Hidden EXCEPT !.eId = id])
  /\ UNCHANGED <<buildVars, now, sessionVars, studentSide, fn, nextTicketId, ticketStore,
                 ticketsCache, inflight, formVars>>

\* the form's submit button: showConfirmModal, the form holding reason
showConfirmModal(c, reason) ==
  /\ page[c] = "student"
  /\ ~confirmOpen[c]
  /\ studentSession[c] # NoId
  /\ IF reason = ""
     THEN /\ Toast(c, "invalid")
          /\ UNCHANGED <<confirmOpen, formReason>>
     ELSE IF ~checkTicketLimit(ticketsCache[c], studentSession[c],
                               currentEditingTicketId[c])
     THEN /\ Toast(c, "limit")
          /\ UNCHANGED <<confirmOpen, formReason>>
     ELSE /\ Toast(c, "")
          /\ confirmOpen' = [confirmOpen EXCEPT ![c] = TRUE]
          /\ formReason' = [formReason EXCEPT ![c] = reason]
  /\ Stay
  /\ UNCHANGED <<buildVars, now, sessionVars, studentSide, fn, nextTicketId, ticketStore,
                 ticketsCache, inflight>>

\* the modal's cancel button
closeConfirmModal(c) ==
  /\ confirmOpen[c]
  /\ confirmOpen' = [confirmOpen EXCEPT ![c] = FALSE]
  /\ formReason' = [formReason EXCEPT ![c] = ""]
  /\ Toast(c, "")
  /\ currentEditingTicketId' =
       [currentEditingTicketId EXCEPT ![c] = IF page[c] = "student" THEN @ ELSE NoId]
  /\ UNCHANGED <<page, studentFooter, teacherFooter, currentStudentDetailTicketId,
                 currentDetailTicketId>>
  /\ UNCHANGED <<buildVars, now, sessionVars, studentSide, fn, nextTicketId, ticketStore,
                 ticketsCache, inflight>>

\* what follows await upsertTicket in submitTicket
AfterSubmit(c) ==
  /\ confirmOpen' = [confirmOpen EXCEPT ![c] = FALSE]
  /\ formReason' = [formReason EXCEPT ![c] = ""]
  /\ Toast(c, "sent")
  /\ Show(c, "student-mypage", Hidden)

\* the modal's send button: submitTicket
submitTicket(c) ==
  /\ confirmOpen[c]
  /\ studentSession[c] # NoId
  /\ currentEditingTicketId[c] = NoId => nextTicketId <= MaxTickets
  /\ LET fresh == currentEditingTicketId[c] = NoId
         id == IF fresh THEN nextTicketId ELSE currentEditingTicketId[c]
         formData == collectFormData(id, studentSession[c], formReason[c])
     IN /\ nextTicketId' = IF fresh THEN nextTicketId + 1 ELSE nextTicketId
        /\ IF RemoteMode(c)
           THEN /\ RemoteUpsertTicket(c, ticketsCache[c], formData, "submitTicket",
                                      Lookup(ticketsCache[c], id))
                /\ Toast(c, "")
                /\ Stay
                /\ UNCHANGED <<ticketsCache, localTickets, formVars>>
           ELSE /\ LocalUpsertTicket(c, ticketsCache[c], formData)
                /\ AfterSubmit(c)
                /\ UNCHANGED inflight
  /\ UNCHANGED <<buildVars, sessionVars, studentSide, fn, remoteTickets, pendingTickets>>

\* what follows await upsertTicket in completeStudentTicket
AfterCompleteStudent(c) ==
  /\ Toast(c, "completed")
  /\ Show(c, "student-mypage", Hide(c))

\* lines 1007-1009: the record of the array is changed in place
CompletedByStudent(ticket, t) ==
  SetField(SetField(SetField(ticket, "status", "done"), "doneAt", t),
           "completedByStudent", TRUE)

\* the solved button of the detail footer: completeStudentTicket
completeStudentTicket(c) ==
  /\ page[c] = "student-detail"
  /\ studentFooter[c] = "open"
  /\ LET idx == getTicketById(ticketsCache[c], currentStudentDetailTicketId[c])
     IN IF idx = 0
        THEN /\ Toast(c, "")
             /\ Stay
             /\ UNCHANGED <<now, ticketsCache, localTickets, inflight>>
        ELSE LET ticket == CompletedByStudent(ticketsCache[c][idx], now)
                 mutated == [ticketsCache[c] EXCEPT ![idx] = ticket]
             IN IF RemoteMode(c)
                THEN /\ RemoteUpsertTicket(c, mutated, ticket, "completeStudentTicket",
                                           <<ticketsCache[c][idx]>>)
                     /\ ticketsCache' = [ticketsCache EXCEPT ![c] = mutated]
                     /\ Toast(c, "")
                     /\ Stay
                     /\ UNCHANGED localTickets
                ELSE /\ LocalUpsertTicket(c, mutated, ticket)
                     /\ AfterCompleteStudent(c)
                     /\ UNCHANGED inflight
  /\ UNCHANGED <<buildVars, sessionVars, studentSide, fn, nextTicketId, remoteTickets,
                 pendingTickets, formVars>>

\* location.hash = #student-detail?id=... for a ticket renderStudentDetail
\* refuses, up to the return of handleRouting: line 548 has shown the page,
\* line 868 has assigned the id, lines 874-876 have shown the toast and set
\* location.hash, whose hashchange event is queued. The footer is not rendered
\* again: it holds what the last rendering left, which the state holds while
\* the detail page is shown
OpenRefusedDetail(c, id) ==
  /\ studentSession[c] # NoId
  /\ ~confirmOpen[c]
  /\ pendingHash[c].page = ""
  /\ Refused(c, ticketsCache[c], id)
  /\ LET shown == page[c] = "student-detail"
     IN /\ Show(c, "student-detail",
                [Hidden EXCEPT !.sId = id,
                               !.sFoot = IF shown THEN studentFooter[c] ELSE "none"])
        /\ pendingHash' =
             [pendingHash EXCEPT
                ![c] = [page |-> "student-mypage",
                        editId |-> IF shown THEN currentStudentDetailTicketId[c]
                                   ELSE NoId]]
  /\ Toast(c, "notFound")
  /\ UNCHANGED <<configured, database, startupVars, refreshed, syncError, passwordVars,
                 now, sessionVars, studentSide, fn, nextTicketId, ticketStore,
                 ticketsCache, inflight, formVars>>

\* the hashchange event queued by a refusal is handled: handleRouting reads
\* location.hash as it is by then. While the detail page is still shown that
\* is #student-mypage; a handler that ran in between has navigated itself
hashchangeQueued(c) ==
  /\ pendingHash[c].page # ""
  /\ pendingHash' = [pendingHash EXCEPT ![c] = NoHash]
  /\ IF page[c] = "student-detail"
     THEN Show(c, pendingHash[c].page, Hide(c))
     ELSE Stay
  /\ Toast(c, "")
  /\ UNCHANGED <<configured, database, startupVars, refreshed, syncError, passwordVars,
                 now, sessionVars, studentSide, fn, nextTicketId, ticketStore,
                 ticketsCache, inflight, formVars>>

\* ------------------------------------------------------------------------
\* Teacher handlers
\* ------------------------------------------------------------------------
\* renderTeacherDetail(id): the ticket is shown, or the list when it is missing
renderTeacherDetail(c, cache, id) ==
  LET idx == getTicketById(cache, id)
  IN IF idx = 0
     THEN /\ Toast(c, "notFound")
          /\ Show(c, "teacher", Hide(c))
     ELSE /\ Toast(c, "")
          /\ Show(c, "teacher-detail",
                  [Hide(c) EXCEPT
                     !.tId = id,
                     !.tFoot = IF cache[idx]["status"] = "done" THEN "done" ELSE "open"])

\* location.hash = #teacher-detail?id=..., handleRouting
OpenTeacherDetail(c, id) ==
  /\ teacherSession[c]
  /\ ~confirmOpen[c]
  /\ ~(page[c] = "teacher-detail" /\ currentDetailTicketId[c] = id)
  /\ renderTeacherDetail(c, ticketsCache[c], id)
  /\ UNCHANGED <<buildVars, now, sessionVars, studentSide, fn, nextTicketId, ticketStore,
                 ticketsCache, inflight, formVars>>

\* the memo button: saveTeacherMemoWithToast, which awaits saveTeacherMemo, the
\* textarea holding memo
saveTeacherMemo(c, memo) ==
  /\ page[c] = "teacher-detail"
  /\ teacherFooter[c] = "open"
  /\ LET idx == getTicketById(ticketsCache[c], currentDetailTicketId[c])
     IN IF idx = 0
        THEN /\ Toast(c, "memoSaved")
             /\ UNCHANGED <<now, ticketsCache, localTickets, inflight>>
        ELSE LET ticket == SetField(ticketsCache[c][idx], "teacherMemo", memo)
                 mutated == [ticketsCache[c] EXCEPT ![idx] = ticket]
             IN IF RemoteMode(c)
                THEN /\ RemoteUpsertTicket(c, mutated, ticket, "saveTeacherMemo",
                                           <<ticketsCache[c][idx]>>)
                     /\ ticketsCache' = [ticketsCache EXCEPT ![c] = mutated]
                     /\ Toast(c, "")
                     /\ UNCHANGED localTickets
                ELSE /\ LocalUpsertTicket(c, mutated, ticket)
                     /\ Toast(c, "memoSaved")
                     /\ UNCHANGED inflight
  /\ Stay
  /\ UNCHANGED <<buildVars, sessionVars, studentSide, fn, nextTicketId, remoteTickets,
                 pendingTickets, formVars>>

\* what follows await upsertTicket in completeTicket
AfterCompleteTicket(c) ==
  /\ Toast(c, "closed")
  /\ Show(c, "teacher", Hide(c))

\* lines 2032-2037: the record of the array is changed in place
CompletedByTeacher(ticket, memo, t) ==
  SetField(SetField(SetField(ticket, "teacherMemo", memo), "status", "done"),
           "doneAt", t)

\* the done button of the teacher footer: completeTicket
completeTicket(c, memo) ==
  /\ page[c] = "teacher-detail"
  /\ teacherFooter[c] = "open"
  /\ LET idx == getTicketById(ticketsCache[c], currentDetailTicketId[c])
     IN IF idx = 0
        THEN /\ Toast(c, "")
             /\ Stay
             /\ UNCHANGED <<now, ticketsCache, localTickets, inflight>>
        ELSE LET ticket == CompletedByTeacher(ticketsCache[c][idx], memo, now)
                 mutated == [ticketsCache[c] EXCEPT ![idx] = ticket]
             IN IF RemoteMode(c)
                THEN /\ RemoteUpsertTicket(c, mutated, ticket, "completeTicket",
                                           <<ticketsCache[c][idx]>>)
                     /\ ticketsCache' = [ticketsCache EXCEPT ![c] = mutated]
                     /\ Toast(c, "")
                     /\ Stay
                     /\ UNCHANGED localTickets
                ELSE /\ LocalUpsertTicket(c, mutated, ticket)
                     /\ AfterCompleteTicket(c)
                     /\ UNCHANGED inflight
  /\ UNCHANGED <<buildVars, sessionVars, studentSide, fn, nextTicketId, remoteTickets,
                 pendingTickets, formVars>>

\* what follows the await in deleteAllTickets
AfterDeleteAllTickets(c) ==
  /\ localTickets' = [localTickets EXCEPT ![c] = NoItem]
  /\ ticketsCache' = [ticketsCache EXCEPT ![c] = <<>>]
  /\ Toast(c, "ticketsDeleted")
  /\ Show(c, "teacher", Hide(c))

\* location.hash = #teacher-settings, the delete modal and its confirm():
\* deleteAllTickets
deleteAllTickets(c) ==
  /\ teacherSession[c]
  /\ ~confirmOpen[c]
  /\ IF RemoteMode(c)
     THEN /\ Len(inflight[c]) < MaxTicketsInflight
          /\ inflight' =
               [inflight EXCEPT ![c] =
                  Append(@, [op |-> "deleteAllTickets", rec |-> [id |-> NoId],
                             before |-> <<>>, base |-> <<>>, other |-> <<>>])]
          /\ Toast(c, "")
          /\ Show(c, "teacher-settings", Hidden)
          /\ UNCHANGED <<localTickets, ticketsCache>>
     ELSE /\ AfterDeleteAllTickets(c)
          /\ UNCHANGED inflight
  /\ UNCHANGED <<buildVars, now, sessionVars, studentSide, fn, nextTicketId, remoteTickets,
                 pendingTickets, formVars>>

\* ------------------------------------------------------------------------
\* The remote store answers; the subscriptions deliver
\* ------------------------------------------------------------------------
\* every client with a subscription is due the new snapshot
NotifyAll(pending) == [d \in Clients |-> IF RemoteMode(d) THEN TRUE ELSE pending[d]]

\* set(ticket) resolves: the path holds the payload, the caller continues
TicketSetResolves(c) ==
  /\ inflight[c] # <<>>
  /\ Head(inflight[c]).op \in TicketOps
  /\ LET w == Head(inflight[c])
     IN /\ remoteTickets' = [remoteTickets EXCEPT ![w.rec["id"]] = <<w.rec>>]
        /\ pendingTickets' = NotifyAll(pendingTickets)
        /\ inflight' = [inflight EXCEPT ![c] = Tail(@)]
        /\ IF w.op = "submitTicket"
           THEN AfterSubmit(c)
           ELSE IF w.op = "completeStudentTicket"
           THEN AfterCompleteStudent(c) /\ UNCHANGED formVars
           ELSE IF w.op = "completeTicket"
           THEN AfterCompleteTicket(c) /\ UNCHANGED formVars
           ELSE Toast(c, "memoSaved") /\ Stay /\ UNCHANGED formVars
  /\ UNCHANGED <<buildVars, now, sessionVars, studentSide, fn, nextTicketId, localTickets,
                 ticketsCache>>

\* set(ticket) is rejected: upsertTicket shows the error and throws, so the
\* caller stops where it awaited
TicketSetRejected(c) ==
  /\ inflight[c] # <<>>
  /\ Head(inflight[c]).op \in TicketOps
  /\ inflight' = [inflight EXCEPT ![c] = Tail(@)]
  /\ Toast(c, "saveFailed")
  /\ Stay
  /\ UNCHANGED <<buildVars, now, sessionVars, studentSide, fn, nextTicketId, ticketStore,
                 ticketsCache, formVars>>

\* remove() of tickets resolves: the store holds no ticket, the caller continues
TicketsRemoveResolves(c) ==
  /\ inflight[c] # <<>>
  /\ Head(inflight[c]).op = "deleteAllTickets"
  /\ remoteTickets' = [i \in 1..MaxTickets |-> <<>>]
  /\ pendingTickets' = NotifyAll(pendingTickets)
  /\ inflight' = [inflight EXCEPT ![c] = Tail(@)]
  /\ AfterDeleteAllTickets(c)
  /\ UNCHANGED <<buildVars, now, sessionVars, studentSide, fn, nextTicketId, formVars>>

\* remove() of tickets is rejected: deleteAllTickets stops where it awaited
TicketsRemoveRejected(c) ==
  /\ inflight[c] # <<>>
  /\ Head(inflight[c]).op = "deleteAllTickets"
  /\ inflight' = [inflight EXCEPT ![c] = Tail(@)]
  /\ Toast(c, "")
  /\ Stay
  /\ UNCHANGED <<buildVars, now, sessionVars, studentSide, fn, nextTicketId, ticketStore,
                 ticketsCache, formVars>>

\* refreshCurrentView after a tickets event
refreshCurrentView(c, cache) ==
  IF page[c] = "teacher-detail"
  THEN renderTeacherDetail(c, cache, currentDetailTicketId[c])
  ELSE Toast(c, "") /\ Stay

\* a listener that refreshes the view whether or not Ready was reached
RefreshAlways(c) == TRUE

\* lines 65 and 77: if (firebaseReady)
RefreshDue(c) == firebaseReady[c]

\* snapshot.val() of a collection: null when no path holds a record
IsNull(data) == \A i \in DOMAIN data : data[i] = <<>>

\* a listener that keeps the record memory holds for an id of the snapshot
TicketsKeptFromMemory(c) ==
  LET values == ObjectValues(remoteTickets)
  IN [i \in 1..Len(values) |->
        IF findIndex(ticketsCache[c], values[i]["id"]) > 0
        THEN ticketsCache[c][findIndex(ticketsCache[c], values[i]["id"])]
        ELSE values[i]]

\* line 63: data ? Object.values(data) : [], for the snapshot of tickets
TicketsFromSnapshot(c) ==
  IF IsNull(remoteTickets) THEN <<>> ELSE ObjectValues(remoteTickets)

\* line 75: data ? Object.values(data) : [], for the snapshot of students
StudentsFromSnapshot(c) ==
  IF IsNull(remoteStudents) THEN <<>> ELSE ObjectValues(remoteStudents)

\* the 'value' listener of tickets
TicketsValueEvent(c) ==
  /\ RemoteMode(c)
  /\ pendingTickets[c]
  /\ pendingTickets' = [pendingTickets EXCEPT ![c] = FALSE]
  /\ ticketsCache' = [ticketsCache EXCEPT ![c] = TicketsFromSnapshot(c)]
  /\ IF RefreshDue(c)
     THEN /\ refreshCurrentView(c, TicketsFromSnapshot(c))
          /\ refreshed' = [refreshed EXCEPT ![c] = TRUE]
     ELSE /\ Toast(c, "")
          /\ Stay
          /\ UNCHANGED refreshed
  \* bookkeeping: what memory holds for a write that is still awaiting
  /\ LET q == inflight[c]
     IN inflight' =
          [inflight EXCEPT ![c] =
             [i \in 1..Len(q) |->
                IF q[i].op \in TicketOps
                THEN [q[i] EXCEPT
                        !.before = Lookup(TicketsFromSnapshot(c), q[i].rec["id"])]
                ELSE q[i]]]
  /\ UNCHANGED <<configured, database, startupVars, syncError, passwordVars, pendingHash,
                 now, sessionVars, studentSide, fn, nextTicketId, remoteTickets,
                 localTickets, formVars>>

\* ------------------------------------------------------------------------
\* The other clients of the remote store. Each operation is the handler of
\* the same name run by a client whose array holds the current snapshot, taken
\* from the click to the resolution of its set
\* ------------------------------------------------------------------------
\* the payload a peer's upsertTicket(ticket) writes, and its effect
PeerUpsertTicket(cache, ticket) ==
  /\ now <= MaxTime
  /\ now' = now + 1
  /\ remoteTickets' =
       [remoteTickets EXCEPT ![ticket["id"]] = <<UpsertTicketRecord(cache, ticket, now)>>]
  /\ pendingTickets' = NotifyAll(pendingTickets)
  \* bookkeeping: the writes of the same id that are under way meet this one
  /\ inflight' =
       [d \in Clients |->
          [i \in 1..Len(inflight[d]) |->
             IF inflight[d][i].op \in TicketOps /\ inflight[d][i].rec["id"] = ticket["id"]
             THEN [inflight[d][i] EXCEPT
                     !.other = <<[rec |-> UpsertTicketRecord(cache, ticket, now),
                                  before |-> remoteTickets[ticket["id"]]]>>]
             ELSE inflight[d][i]]]

\* showConfirmModal and submitTicket of a client logged in as student s
PeerSubmitTicket(s) ==
  /\ configured
  /\ nextTicketId <= MaxTickets
  /\ checkTicketLimit(ObjectValues(remoteTickets), s, NoId)
  /\ PeerUpsertTicket(ObjectValues(remoteTickets), collectFormData(nextTicketId, s, "q1"))
  /\ nextTicketId' = nextTicketId + 1
  /\ UNCHANGED <<buildVars, sessionVars, studentSide, fn, localTickets, ticketsCache,
                 viewVars, formVars, toast>>

\* completeStudentTicket of the client of the ticket's student
PeerCompleteStudentTicket(id) ==
  /\ configured
  /\ remoteTickets[id] # <<>>
  /\ remoteTickets[id][1]["status"] # "done"
  /\ LET cache == ObjectValues(remoteTickets)
         idx == getTicketById(cache, id)
         ticket == CompletedByStudent(cache[idx], now)
     IN PeerUpsertTicket([cache EXCEPT ![idx] = ticket], ticket)
  /\ UNCHANGED <<buildVars, sessionVars, studentSide, fn, nextTicketId, localTickets,
                 ticketsCache, viewVars, formVars, toast>>

\* completeTicket of a teacher's client
PeerCompleteTicket(id, memo) ==
  /\ configured
  /\ remoteTickets[id] # <<>>
  /\ remoteTickets[id][1]["status"] # "done"
  /\ LET cache == ObjectValues(remoteTickets)
         idx == getTicketById(cache, id)
         ticket == CompletedByTeacher(cache[idx], memo, now)
     IN PeerUpsertTicket([cache EXCEPT ![idx] = ticket], ticket)
  /\ UNCHANGED <<buildVars, sessionVars, studentSide, fn, nextTicketId, localTickets,
                 ticketsCache, viewVars, formVars, toast>>

\* deleteAllTickets of a teacher's client
PeerDeleteAllTickets ==
  /\ configured
  /\ \E id \in 1..MaxTickets : remoteTickets[id] # <<>>
  /\ remoteTickets' = [i \in 1..MaxTickets |-> <<>>]
  /\ pendingTickets' = NotifyAll(pendingTickets)
  /\ UNCHANGED <<buildVars, now, sessionVars, studentSide, fn, nextTicketId, localTickets,
                 ticketsCache, inflight, viewVars, formVars, toast>>

\* ------------------------------------------------------------------------
\* Student management (page teacher-students)
\* ------------------------------------------------------------------------
\* what the fields of #student-modal may hold when the teacher saves
ClassInputs == {<<>>, <<"4", "S">>, <<"5", "S">>}
InitialsInputs == {<<" ">>, <<"a">>, <<"A">>, <<"b", " ">>}
BirthdayInputs == {<<"0", "1", "0", "1">>, <<"0", "1">>}
StudentForms ==
  [className : ClassInputs, initials : InitialsInputs, birthday : BirthdayInputs]

\* the ticket flows stand still during student management
StudentsOnly ==
  UNCHANGED <<buildVars, now, sessionVars, fn, nextTicketId, ticketStore, ticketsCache,
              viewVars, formVars>>

\* showAddStudentModal
showAddStudentModal(c) ==
  /\ teacherSession[c]
  /\ ~studentModal[c].open
  /\ studentModal' = [studentModal EXCEPT ![c] = [open |-> TRUE, id |-> NoId]]
  /\ Toast(c, "")
  /\ StudentsOnly
  /\ UNCHANGED <<nextStudentId, remoteStudents, studentsCache, localStudents,
                 pendingStudents, inflight>>

\* showEditStudentModal(studentId), from a card of the list
showEditStudentModal(c, studentId) ==
  /\ teacherSession[c]
  /\ ~studentModal[c].open
  /\ getStudentById(studentsCache[c], studentId) # 0
  /\ studentModal' = [studentModal EXCEPT ![c] = [open |-> TRUE, id |-> studentId]]
  /\ Toast(c, "")
  /\ StudentsOnly
  /\ UNCHANGED <<nextStudentId, remoteStudents, studentsCache, localStudents,
                 pendingStudents, inflight>>

\* closeStudentModal; the hidden id field is written again before the modal is
\* shown next
closeStudentModal(c) ==
  /\ studentModal[c].open
  /\ studentModal' = [studentModal EXCEPT ![c] = [open |-> FALSE, id |-> NoId]]
  /\ Toast(c, "")
  /\ StudentsOnly
  /\ UNCHANGED <<nextStudentId, remoteStudents, studentsCache, localStudents,
                 pendingStudents, inflight>>

\* what follows await upsertStudent in saveStudent
AfterSaveStudent(c, id) ==
  /\ studentModal' = [studentModal EXCEPT ![c] = [open |-> FALSE, id |-> NoId]]
  /\ Toast(c, IF id # NoId THEN "updated" ELSE "registered")

\* saveStudent: no write is issued
SaveStudentRejected(c, message) ==
  /\ Toast(c, message)
  /\ UNCHANGED <<nextStudentId, remoteStudents, studentsCache, localStudents,
                 pendingStudents, inflight, studentModal>>

\* the save button of #student-modal: saveStudent, the fields holding form
saveStudent(c, form) ==
  /\ studentModal[c].open
  /\ LET id == studentModal[c].id
         className == form.className
         initials == toUpperCase(trim(form.initials))
         birthday == trim(form.birthday)
     IN IF className = <<>>
        THEN SaveStudentRejected(c, "classRequired")
        ELSE IF initials = <<>>
        THEN SaveStudentRejected(c, "initialsRequired")
        ELSE IF birthday = <<>> \/ ~TestFourDigits(birthday)
        THEN SaveStudentRejected(c, "birthdayInvalid")
        ELSE IF FindDuplicate(studentsCache[c], className, initials, id) # 0
        THEN SaveStudentRejected(c, "duplicate")
        ELSE LET student == [id |-> IF id # NoId THEN id ELSE nextStudentId,
                             className |-> className, initials |-> initials,
                             birthday |-> birthday]
             IN /\ id = NoId => nextStudentId <= MaxStudents
                /\ nextStudentId' = IF id # NoId THEN nextStudentId ELSE nextStudentId + 1
                /\ IF RemoteMode(c)
                   THEN /\ Len(inflight[c]) < MaxInflight
                        /\ inflight' =
                             [inflight EXCEPT ![c] =
                                Append(@, [op |-> "saveStudent", rec |-> student,
                                           before |-> Lookup(studentsCache[c], student["id"]),
                                           formId |-> id])]
                        /\ Toast(c, "")
                        /\ UNCHANGED <<studentsCache, localStudents, studentModal>>
                   ELSE /\ studentsCache' =
                             [studentsCache EXCEPT ![c] = UpsertStudentLocal(@, student)]
                        /\ localStudents' =
                             [localStudents EXCEPT ![c] =
                                setItem(UpsertStudentLocal(studentsCache[c], student),
                                        StudentKeys)]
                        /\ AfterSaveStudent(c, id)
                        /\ UNCHANGED inflight
                /\ UNCHANGED <<remoteStudents, pendingStudents>>
  /\ StudentsOnly

\* showDeleteStudentModal(studentId) and the delete button of #delete-modal:
\* confirmDeleteStudent with deleteStudentId = studentId
confirmDeleteStudent(c, studentId) ==
  /\ teacherSession[c]
  /\ ~studentModal[c].open
  /\ getStudentById(studentsCache[c], studentId) # 0
  /\ IF RemoteMode(c)
     THEN /\ Len(inflight[c]) < MaxInflight
          /\ inflight' =
               [inflight EXCEPT ![c] =
                  Append(@, [op |-> "deleteStudent", rec |-> [id |-> studentId],
                             before |-> Lookup(studentsCache[c], studentId),
                             formId |-> studentId])]
          /\ Toast(c, "")
          /\ UNCHANGED <<studentsCache, localStudents>>
     ELSE /\ studentsCache' = [studentsCache EXCEPT ![c] = FilterOutId(@, studentId)]
          /\ localStudents' =
               [localStudents EXCEPT ![c] =
                  setItem(FilterOutId(studentsCache[c], studentId), StudentKeys)]
          /\ Toast(c, "deleted")
          /\ UNCHANGED inflight
  /\ StudentsOnly
  /\ UNCHANGED <<nextStudentId, remoteStudents, pendingStudents, studentModal>>

StudentOps == {"saveStudent", "deleteStudent"}

\* set(student) or remove() resolves: the path holds the payload or nothing,
\* the caller continues
StudentWriteResolves(c) ==
  /\ inflight[c] # <<>>
  /\ Head(inflight[c]).op \in StudentOps
  /\ LET w == Head(inflight[c])
     IN IF w.op = "saveStudent"
        THEN /\ remoteStudents' = [remoteStudents EXCEPT ![w.rec["id"]] = <<w.rec>>]
             /\ AfterSaveStudent(c, w.formId)
        ELSE /\ remoteStudents' = [remoteStudents EXCEPT ![w.rec["id"]] = <<>>]
             /\ Toast(c, "deleted")
             /\ UNCHANGED studentModal
  /\ pendingStudents' = NotifyAll(pendingStudents)
  /\ inflight' = [inflight EXCEPT ![c] = Tail(@)]
  /\ StudentsOnly
  /\ UNCHANGED <<nextStudentId, studentsCache, localStudents>>

\* set(student) or remove() is rejected: the error is shown and thrown, so
\* the caller stops where it awaited
StudentWriteRejected(c) ==
  /\ inflight[c] # <<>>
  /\ Head(inflight[c]).op \in StudentOps
  /\ Toast(c, IF Head(inflight[c]).op = "saveStudent" THEN "saveFailed" ELSE "deleteFailed")
  /\ inflight' = [inflight EXCEPT ![c] = Tail(@)]
  /\ StudentsOnly
  /\ UNCHANGED <<nextStudentId, remoteStudents, pendingStudents, studentsCache,
                 localStudents, studentModal>>

\* the 'value' listener of students
StudentsValueEvent(c) ==
  /\ RemoteMode(c)
  /\ pendingStudents[c]
  /\ pendingStudents' = [pendingStudents EXCEPT ![c] = FALSE]
  /\ studentsCache' = [studentsCache EXCEPT ![c] = StudentsFromSnapshot(c)]
  /\ IF RefreshDue(c)
     THEN /\ refreshCurrentView(c, ticketsCache[c])
          /\ refreshed' = [refreshed EXCEPT ![c] = TRUE]
     ELSE /\ Toast(c, "")
          /\ Stay
          /\ UNCHANGED refreshed
  /\ UNCHANGED <<configured, database, startupVars, syncError, passwordVars, pendingHash,
                 now, sessionVars, fn, nextTicketId, ticketStore, ticketsCache, formVars>>
  /\ UNCHANGED <<nextStudentId, remoteStudents, localStudents, inflight, studentModal>>

\* the forms another teacher's client saves
PeerForms ==
  [className : {<<"4", "S">>, <<"5", "S">>}, initials : {<<"a">>, <<"b", " ">>},
   birthday : {<<"0", "1", "0", "1">>}]

\* saveStudent of another teacher's client, for a new student
PeerSaveStudent(form) ==
  /\ configured
  /\ nextStudentId <= MaxStudents
  /\ form.className # <<>>
  /\ toUpperCase(trim(form.initials)) # <<>>
  /\ TestFourDigits(trim(form.birthday))
  /\ FindDuplicate(ObjectValues(remoteStudents), form.className,
                   toUpperCase(trim(form.initials)), NoId) = 0
  /\ remoteStudents' =
       [remoteStudents EXCEPT ![nextStudentId] =
          <<[id |-> nextStudentId, className |-> form.className,
             initials |-> toUpperCase(trim(form.initials)),
             birthday |-> trim(form.birthday)]>>]
  /\ nextStudentId' = nextStudentId + 1
  /\ pendingStudents' = NotifyAll(pendingStudents)
  /\ StudentsOnly
  /\ UNCHANGED <<studentsCache, localStudents, inflight, studentModal, toast>>

\* ------------------------------------------------------------------------
\* The ticket flows
\* ------------------------------------------------------------------------
Next ==
  \/ \E c \in Clients, id \in 1..MaxTickets :
       id < nextTicketId /\ OpenStudentDetail(c, id)
  \/ \E c \in Clients : OpenNewForm(c)
  \/ \E c \in Clients : editTicket(c)
  \/ \E c \in Clients, reason \in FormInputs : showConfirmModal(c, reason)
  \/ \E c \in Clients : closeConfirmModal(c)
  \/ \E c \in Clients : submitTicket(c)
  \/ \E c \in Clients : completeStudentTicket(c)
  \/ \E c \in Clients, id \in 1..MaxTickets :
       id < nextTicketId /\ OpenTeacherDetail(c, id)
  \/ \E c \in Clients, memo \in MemoInputs : saveTeacherMemo(c, memo)
  \/ \E c \in Clients, memo \in MemoInputs : completeTicket(c, memo)
  \/ \E c \in Clients : TicketSetResolves(c)
  \/ \E c \in Clients : TicketSetRejected(c)
  \/ \E c \in Clients : TicketsValueEvent(c)
  \/ \E s \in StudentIds : PeerSubmitTicket(s)
  \/ \E id \in 1..MaxTickets : PeerCompleteStudentTicket(id)
  \/ \E id \in 1..MaxTickets, memo \in MemoInputs : PeerCompleteTicket(id, memo)
  \/ \E c \in Clients : deleteAllTickets(c)
  \/ \E c \in Clients : TicketsRemoveResolves(c)
  \/ \E c \in Clients : TicketsRemoveRejected(c)
  \/ PeerDeleteAllTickets

Spec == Init /\ [][Next]_vars

\* ------------------------------------------------------------------------
\* The student flows with the refusal of renderStudentDetail in two steps
\* ------------------------------------------------------------------------
\* the user enters a hash or follows a link only between two events
NoHashQueued(c) == pendingHash[c].page = ""

NextOwnership ==
  \/ \E c \in Clients, id \in 1..MaxTickets :
       /\ NoHashQueued(c)
       /\ ~Refused(c, ticketsCache[c], id)
       /\ OpenStudentDetail(c, id)
  \/ \E c \in Clients, id \in 1..MaxTickets : OpenRefusedDetail(c, id)
  \/ \E c \in Clients : hashchangeQueued(c)
  \/ \E c \in Clients : NoHashQueued(c) /\ OpenNewForm(c)
  \/ \E c \in Clients : editTicket(c)
  \/ \E c \in Clients, reason \in FormInputs : showConfirmModal(c, reason)
  \/ \E c \in Clients : closeConfirmModal(c)
  \/ \E c \in Clients : submitTicket(c)
  \/ \E c \in Clients : completeStudentTicket(c)
  \/ \E c \in Clients : TicketSetResolves(c)
  \/ \E c \in Clients : TicketSetRejected(c)
  \/ \E c \in Clients : TicketsValueEvent(c)
  \/ \E id \in 1..MaxTickets, memo \in MemoInputs : PeerCompleteTicket(id, memo)

SpecOwnership == Init /\ [][NextOwnership]_vars

\* ------------------------------------------------------------------------
\* Student management
\* ------------------------------------------------------------------------
InitStudents ==
  \E l \in Sessions, students \in StoredStudents : InitWith(l, <<>>, students)

NextStudents ==
  \/ \E c \in Clients : showAddStudentModal(c)
  \/ \E c \in Clients, id \in 1..MaxStudents : showEditStudentModal(c, id)
  \/ \E c \in Clients : closeStudentModal(c)
  \/ \E c \in Clients, form \in StudentForms : saveStudent(c, form)
  \/ \E c \in Clients, id \in 1..MaxStudents : confirmDeleteStudent(c, id)
  \/ \E c \in Clients : StudentWriteResolves(c)
  \/ \E c \in Clients : StudentWriteRejected(c)
  \/ \E c \in Clients : StudentsValueEvent(c)
  \/ \E form \in PeerForms : PeerSaveStudent(form)

SpecStudents == InitStudents /\ [][NextStudents]_vars

\* ------------------------------------------------------------------------
\* The data functions called directly, on collections of any content
\* ------------------------------------------------------------------------
\* a ticket as a collection may hold it
HeldTicket(id, kind) ==
  IF kind = "open" THEN StoredTicket(id, 1)
  ELSE IF kind = "closed"
  THEN CompletedByTeacher(StoredTicket(id, 1), "m1", 1)
  ELSE CompletedByStudent(StoredTicket(id, 1), 1)

TicketKinds == {"open", "closed", "solved"}

\* the ticket collections of at most MaxLen records, record i under id i
HeldTickets ==
  UNION {[1..n -> TicketKinds] : n \in 0..MaxLen}

\* the student collections of at most MaxLen records, record i under id i
HeldStudents ==
  UNION {[1..n -> [className : {<<"4", "S">>, <<"4", "s">>},
                   initials : {<<"A">>, <<"a">>, <<"B">>},
                   birthday : {<<"0", "1", "0", "1">>, <<"0", "1", "0", "2">>}]] :
           n \in 0..MaxLen}

InitFn ==
  \E l \in Sessions :
    \/ \E kinds \in HeldTickets :
         InitWith(l, [i \in 1..Len(kinds) |-> HeldTicket(i, kinds[i])], <<>>)
    \/ \E held \in HeldStudents :
         InitWith(l, <<>>,
                  [i \in 1..Len(held) |->
                     [id |-> i, className |-> held[i].className,
                      initials |-> held[i].initials, birthday |-> held[i].birthday]])

\* the tickets passed to upsertTicket: form data, which carries no createdAt,
\* or a full record
TicketArguments ==
  {collectFormData(id, 1, "q1") : id \in 1..(MaxLen + 1)}
  \cup {HeldTicket(id, kind) : id \in 1..(MaxLen + 1), kind \in TicketKinds}

\* upsertTicket(ticket) from its call to its return; in remote mode set resolves
upsertTicket(c, ticket) ==
  /\ IF RemoteMode(c)
     THEN /\ PeerUpsertTicket(ticketsCache[c], ticket)
          /\ UNCHANGED <<ticketsCache, localTickets>>
     ELSE /\ LocalUpsertTicket(c, ticketsCache[c], ticket)
          /\ UNCHANGED <<remoteTickets, pendingTickets, inflight>>
  /\ UNCHANGED <<buildVars, sessionVars, studentSide, nextTicketId, viewVars,
                 formVars, toast>>

\* a run calls one function on the collections it started from
\* upsertTicket(ticket), a first time
CallUpsertTicket(c, ticket) ==
  /\ fn.op = "none"
  /\ upsertTicket(c, ticket)
  /\ fn' = [op |-> "upsertTicket", ticket |-> ticket, times |-> 1,
            first |-> UpsertTicketRecord(ticketsCache[c], ticket, now)]

\* upsertTicket(ticket) in local mode when localStorage.setItem throws, as it
\* does when the quota of the origin is used up: lines 188-192 have changed
\* the array, line 193 throws, and the item keeps its value
CallUpsertTicketQuotaExceeded(c, ticket) ==
  /\ fn.op = "none"
  /\ ~RemoteMode(c)
  /\ now <= MaxTime
  /\ now' = now + 1
  /\ ticketsCache' =
       [ticketsCache EXCEPT ![c] = UpsertTicketLocal(ticketsCache[c], ticket, now)]
  /\ fn' = [op |-> "upsertTicketThrew", ticket |-> ticket]
  /\ UNCHANGED <<buildVars, sessionVars, studentSide, nextTicketId, ticketStore,
                 inflight, viewVars, formVars, toast>>

\* upsertTicket with the same ticket, next
CallUpsertTicketAgain(c) ==
  /\ fn.op = "upsertTicket"
  /\ fn.times = 1
  /\ upsertTicket(c, fn.ticket)
  /\ fn' = [fn EXCEPT !.times = 2]

\* upsertStudent(student) from its call to its return; in remote mode set
\* resolves
CallUpsertStudent(c, student) ==
  /\ fn.op = "none"
  /\ IF RemoteMode(c)
     THEN /\ remoteStudents' = [remoteStudents EXCEPT ![student["id"]] = <<student>>]
          /\ pendingStudents' = NotifyAll(pendingStudents)
          /\ UNCHANGED <<studentsCache, localStudents>>
     ELSE /\ studentsCache' = [studentsCache EXCEPT ![c] = UpsertStudentLocal(@, student)]
          /\ localStudents' =
               [localStudents EXCEPT ![c] =
                  setItem(UpsertStudentLocal(studentsCache[c], student), StudentKeys)]
          /\ UNCHANGED <<remoteStudents, pendingStudents>>
  /\ fn' = [op |-> "upsertStudent", student |-> student]
  /\ UNCHANGED <<buildVars, now, sessionVars, nextTicketId, nextStudentId, ticketStore,
                 ticketsCache, inflight, viewVars, formVars, toast, studentModal>>

\* findStudent(className, initials, birthday)
CallFindStudent(c, className, initials, birthday) ==
  /\ fn.op = "none"
  /\ fn' = [op |-> "findStudent", className |-> className, initials |-> initials,
            birthday |-> birthday,
            result |-> findStudent(studentsCache[c], className, initials, birthday)]
  /\ UNCHANGED <<buildVars, now, sessionVars, studentSide, nextTicketId, ticketStore,
                 ticketsCache, inflight, viewVars, formVars, toast>>

NextFn ==
  \/ \E c \in Clients, ticket \in TicketArguments : CallUpsertTicket(c, ticket)
  \/ \E c \in Clients : CallUpsertTicketAgain(c)
  \/ \E c \in Clients, ticket \in TicketArguments :
       CallUpsertTicketQuotaExceeded(c, ticket)
  \/ \E c \in Clients, id \in 1..MaxStudents,
         form \in [className : {<<"4", "S">>}, initials : {<<"A">>, <<"B">>},
                   birthday : {<<"0", "1", "0", "1">>}] :
       CallUpsertStudent(c, [id |-> id, className |-> form.className,
                             initials |-> form.initials, birthday |-> form.birthday])
  \/ \E c \in Clients, className \in {<<"4", "S">>, <<"4", "s">>},
         initials \in {<<"A">>, <<"a">>, <<"b">>},
         birthday \in {<<"0", "1", "0", "1">>, <<"0", "1", "0", "2">>} :
       CallFindStudent(c, className, initials, birthday)
  \/ \E c \in Clients : TicketsValueEvent(c)
  \/ \E c \in Clients : StudentsValueEvent(c)

SpecFn == InitFn /\ [][NextFn]_vars

\* ------------------------------------------------------------------------
\* The teacher password
\* ------------------------------------------------------------------------
DEFAULT_TEACHER_PASSWORD == "066"

\* what the fields of #password-change-modal and of the login page may hold
PasswordInputs == {"", DEFAULT_TEACHER_PASSWORD, "pw1", "pw2"}

\* getTeacherPassword: the value returned
getTeacherPassword(c) ==
  IF teacherPasswordCache[c] # "" THEN teacherPasswordCache[c]
  ELSE IF localPassword[c] # "" THEN localPassword[c]
  ELSE DEFAULT_TEACHER_PASSWORD

\* what the password flows leave alone
PasswordOnly ==
  UNCHANGED <<configured, database, startupVars, refreshed, syncError, pendingHash, now,
              sessionVars, studentSide, fn, nextTicketId, ticketStore, ticketsCache,
              viewVars, formVars>>

\* showPasswordChangeModal, from the settings page
showPasswordChangeModal(c) ==
  /\ page[c] = "teacher-settings"
  /\ ~passwordModal[c]
  /\ passwordModal' = [passwordModal EXCEPT ![c] = TRUE]
  /\ Toast(c, "")
  /\ PasswordOnly
  /\ UNCHANGED <<teacherPasswordCache, localPassword, remotePassword, pendingPassword,
                 inflight>>

\* lines 376-377 and closePasswordChangeModal, showToast: what follows the
\* try / catch of setTeacherPassword and the await of changeTeacherPassword
AfterSetTeacherPassword(c, newPassword) ==
  /\ localPassword' = [localPassword EXCEPT ![c] = newPassword]
  /\ teacherPasswordCache' = [teacherPasswordCache EXCEPT ![c] = newPassword]
  /\ passwordModal' = [passwordModal EXCEPT ![c] = FALSE]
  /\ Toast(c, "passwordChanged")

\* the change button of the modal: changeTeacherPassword, the fields holding
\* current, new and confirm
changeTeacherPassword(c, currentPassword, newPassword, confirmPassword) ==
  /\ passwordModal[c]
  /\ IF currentPassword # getTeacherPassword(c)
     THEN /\ Toast(c, "wrongCurrent")
          /\ teacherPasswordCache' =
               [teacherPasswordCache EXCEPT ![c] = getTeacherPassword(c)]
          /\ UNCHANGED <<localPassword, passwordModal, inflight>>
     ELSE IF newPassword = ""
     THEN /\ Toast(c, "newRequired")
          /\ teacherPasswordCache' =
               [teacherPasswordCache EXCEPT ![c] = getTeacherPassword(c)]
          /\ UNCHANGED <<localPassword, passwordModal, inflight>>
     ELSE IF newPassword # confirmPassword
     THEN /\ Toast(c, "mismatch")
          /\ teacherPasswordCache' =
               [teacherPasswordCache EXCEPT ![c] = getTeacherPassword(c)]
          /\ UNCHANGED <<localPassword, passwordModal, inflight>>
     ELSE IF RemoteMode(c)
     THEN /\ Len(inflight[c]) < MaxInflight
          /\ inflight' =
               [inflight EXCEPT ![c] =
                  Append(@, [op |-> "setTeacherPassword",
                             rec |-> [id |-> NoId, password |-> newPassword],
                             before |-> <<>>, base |-> <<>>, other |-> <<>>])]
          /\ teacherPasswordCache' =
               [teacherPasswordCache EXCEPT ![c] = getTeacherPassword(c)]
          /\ Toast(c, "")
          /\ UNCHANGED <<localPassword, passwordModal>>
     ELSE /\ AfterSetTeacherPassword(c, newPassword)
          /\ UNCHANGED inflight
  /\ PasswordOnly
  /\ UNCHANGED <<remotePassword, pendingPassword>>

\* set(newPassword) resolves: the path holds it, setTeacherPassword continues
PasswordSetResolves(c) ==
  /\ inflight[c] # <<>>
  /\ Head(inflight[c]).op = "setTeacherPassword"
  /\ remotePassword' = Head(inflight[c]).rec["password"]
  /\ pendingPassword' = NotifyAll(pendingPassword)
  /\ inflight' = [inflight EXCEPT ![c] = Tail(@)]
  /\ AfterSetTeacherPassword(c, Head(inflight[c]).rec["password"])
  /\ PasswordOnly

\* set(newPassword) is rejected: lines 372-374 log the error, and
\* setTeacherPassword continues
PasswordSetRejected(c) ==
  /\ inflight[c] # <<>>
  /\ Head(inflight[c]).op = "setTeacherPassword"
  /\ inflight' = [inflight EXCEPT ![c] = Tail(@)]
  /\ AfterSetTeacherPassword(c, Head(inflight[c]).rec["password"])
  /\ PasswordOnly
  /\ UNCHANGED <<remotePassword, pendingPassword>>

\* loadTeacherPasswordFromFirebase: the 'value' listener of the password
PasswordValueEvent(c) ==
  /\ RemoteMode(c)
  /\ pendingPassword[c]
  /\ pendingPassword' = [pendingPassword EXCEPT ![c] = FALSE]
  /\ IF remotePassword # ""
     THEN /\ teacherPasswordCache' = [teacherPasswordCache EXCEPT ![c] = remotePassword]
          /\ localPassword' = [localPassword EXCEPT ![c] = remotePassword]
     ELSE UNCHANGED <<teacherPasswordCache, localPassword>>
  /\ Toast(c, "")
  /\ PasswordOnly
  /\ UNCHANGED <<remotePassword, passwordModal, inflight>>

\* changeTeacherPassword of another teacher's client, its set resolved
PeerChangePassword(newPassword) ==
  /\ configured
  /\ newPassword # ""
  /\ newPassword # remotePassword
  /\ remotePassword' = newPassword
  /\ pendingPassword' = NotifyAll(pendingPassword)
  /\ PasswordOnly
  /\ UNCHANGED <<teacherPasswordCache, localPassword, passwordModal, inflight, toast>>

\* ------------------------------------------------------------------------
\* Startup: DOMContentLoaded, initializeFirebaseData, waitForData, and the
\* hashchange listener
\* ------------------------------------------------------------------------
\* the pages location.hash may name during startup: "teacher-detail" stands
\* for #teacher-detail?id=1, "bad" for a hash whose query string
\* decodeURIComponent refuses, so that parseHash throws
StartPages == {"top", "teacher", "teacher-detail", "bad"}

\* handleRouting throws before it hides or shows anything
Throws(p) == p = "bad"

\* handleRouting that leaves the settings page unguarded
TeacherOnlyButSettings(p) == p \in {"teacher", "teacher-detail", "teacher-students"}

\* the cases of handleRouting that begin with if (!getStudentSession())
StudentOnly(p) == p \in {"student-mypage", "student-detail", "student"}

\* the cases of handleRouting that begin with if (!getTeacherSession())
TeacherOnly(p) == p \in {"teacher-settings", "teacher-students", "teacher", "teacher-detail"}

\* handleRouting for the hash p, the array holding cache; a redirection to a
\* login page is taken with the hashchange it causes
handleRouting(c, p, cache) ==
  IF Throws(p)
  THEN /\ page' = [page EXCEPT ![c] = p]
       /\ Toast(c, "")
       /\ UNCHANGED <<studentFooter, teacherFooter, currentStudentDetailTicketId,
                      currentDetailTicketId, currentEditingTicketId>>
  ELSE IF StudentOnly(p) /\ studentSession[c] = NoId
  THEN Toast(c, "") /\ Show(c, "student-login", Hide(c))
  ELSE IF TeacherOnly(p) /\ ~teacherSession[c]
  THEN Toast(c, "") /\ Show(c, "teacher-login", Hide(c))
  ELSE IF p = "teacher-detail"
  THEN renderTeacherDetail(c, cache, 1)
  ELSE IF p = "student-detail"
  THEN renderStudentDetail(c, cache, 1)
  ELSE Toast(c, "") /\ Show(c, p, Hide(c))

\* a startup path that forgets to set firebaseReady
MarkReadyNever(c) == UNCHANGED firebaseReady

\* firebaseReady = true
MarkReady(c) == firebaseReady' = [firebaseReady EXCEPT ![c] = TRUE]

\* what localStorage may hold when the document loads
StartItems == {NoItem, setItem(<<StoredTicket(1, 1)>>, TicketKeys), CorruptItem}

InitStartup ==
  \E remote \in BOOLEAN, stored \in StoredTickets, item \in StartItems,
     students \in {NoItem, CorruptItem}, p \in StartPages :
    /\ configured = remote
    /\ database = [c \in Clients |-> FALSE]
    /\ firebaseReady = [c \in Clients |-> FALSE]
    /\ dataLoadedCallbacks = [c \in Clients |-> <<>>]
    /\ loading = [c \in Clients |-> "document"]
    /\ invoked = [c \in Clients |-> 0]
    /\ refreshed = [c \in Clients |-> FALSE]
    /\ syncError = [c \in Clients |-> FALSE]
    /\ remotePassword = ""
    /\ localPassword = [c \in Clients |-> ""]
    /\ teacherPasswordCache = [c \in Clients |-> ""]
    /\ pendingPassword = [c \in Clients |-> FALSE]
    /\ passwordModal = [c \in Clients |-> FALSE]
    /\ pendingHash = [c \in Clients |-> NoHash]
    /\ now = 2
    /\ nextTicketId = Len(stored) + 1
    /\ nextStudentId = 1
    /\ remoteTickets =
         [i \in 1..MaxTickets |-> IF remote /\ i <= Len(stored) THEN <<stored[i]>> ELSE <<>>]
    /\ remoteStudents = [i \in 1..MaxStudents |-> <<>>]
    /\ localTickets = [c \in Clients |-> item]
    /\ localStudents = [c \in Clients |-> students]
    /\ ticketsCache = [c \in Clients |-> <<>>]
    /\ studentsCache = [c \in Clients |-> <<>>]
    /\ pendingTickets = [c \in Clients |-> FALSE]
    /\ pendingStudents = [c \in Clients |-> FALSE]
    /\ inflight = [c \in Clients |-> <<>>]
    /\ studentSession = [c \in Clients |-> 1]
    /\ teacherSession = [c \in Clients |-> TRUE]
    /\ page = [c \in Clients |-> p]
    /\ studentFooter = [c \in Clients |-> "none"]
    /\ currentStudentDetailTicketId = [c \in Clients |-> NoId]
    /\ currentEditingTicketId = [c \in Clients |-> NoId]
    /\ confirmOpen = [c \in Clients |-> FALSE]
    /\ formReason = [c \in Clients |-> ""]
    /\ currentDetailTicketId = [c \in Clients |-> NoId]
    /\ teacherFooter = [c \in Clients |-> "none"]
    /\ studentModal = [c \in Clients |-> [open |-> FALSE, id |-> NoId]]
    /\ toast = [c \in Clients |-> ""]
    /\ fn = NoCall

\* what startup leaves alone
StartupOnly ==
  UNCHANGED <<configured, refreshed, syncError, teacherPasswordCache, localPassword,
              remotePassword, passwordModal, pendingHash, now, nextTicketId, sessionVars,
              fn, remoteTickets,
              localTickets, inflight, formVars, nextStudentId, remoteStudents,
              localStudents, studentModal>>

\* lines 42-43, 52-53, 98-99: both arrays are read from localStorage
LoadFromLocal(c) ==
  /\ ticketsCache' = [ticketsCache EXCEPT ![c] = loadTicketsFromLocal(localTickets[c])]
  /\ studentsCache' = [studentsCache EXCEPT ![c] = loadStudentsFromLocal(localStudents[c])]

\* the callback of waitForData is called, the array holding cache
InvokeCallback(c, cache, times) ==
  /\ invoked' = [invoked EXCEPT ![c] = @ + times]
  /\ handleRouting(c, page[c], cache)

\* triggerDataLoadedCallbacks on the queue the state holds: a callback that
\* throws ends forEach before the queue is cleared
TriggerKeepsQueue(c) == dataLoadedCallbacks[c] # <<>> /\ Throws(page[c])

\* the DOMContentLoaded handler: initializeFirebaseData, then waitForData;
\* ok is what initFirebase returns
DOMContentLoaded(c) ==
  /\ loading[c] = "document"
  /\ \E ok \in BOOLEAN :
       IF configured /\ ok
       THEN \* both listeners are registered, the initial fetch is awaited, and
            \* waitForData queues the callback
            /\ database' = [database EXCEPT ![c] = TRUE]
            /\ pendingTickets' = [pendingTickets EXCEPT ![c] = TRUE]
            /\ pendingStudents' = [pendingStudents EXCEPT ![c] = TRUE]
            /\ pendingPassword' = [pendingPassword EXCEPT ![c] = TRUE]
            /\ loading' = [loading EXCEPT ![c] = "fetching"]
            /\ dataLoadedCallbacks' =
                 [dataLoadedCallbacks EXCEPT ![c] = Append(@, "handleRouting")]
            /\ Toast(c, "")
            /\ Stay
            /\ UNCHANGED <<firebaseReady, invoked, ticketsCache, studentsCache>>
       ELSE \* lines 40-58; waitForData finds firebaseReady and calls back
            /\ LoadFromLocal(c)
            /\ MarkReady(c)
            /\ loading' = [loading EXCEPT ![c] = "settled"]
            /\ InvokeCallback(c, loadTicketsFromLocal(localTickets[c]), 1)
            /\ UNCHANGED <<database, pendingTickets, pendingStudents, pendingPassword,
                           dataLoadedCallbacks>>
  /\ StartupOnly

\* Promise.all resolves, after both listeners received their first snapshot:
\* lines 91-95. An error thrown by a callback rejects the promise of then, so
\* the handler of catch, lines 96-103, runs next and drains the queue again
InitialFetchSucceeds(c) ==
  /\ loading[c] = "fetching"
  /\ ~pendingTickets[c]
  /\ ~pendingStudents[c]
  /\ MarkReady(c)
  /\ loading' = [loading EXCEPT ![c] = "settled"]
  /\ IF TriggerKeepsQueue(c)
     THEN /\ LoadFromLocal(c)
          /\ InvokeCallback(c, loadTicketsFromLocal(localTickets[c]), 2)
          /\ UNCHANGED dataLoadedCallbacks
     ELSE /\ InvokeCallback(c, ticketsCache[c], Len(dataLoadedCallbacks[c]))
          /\ dataLoadedCallbacks' = [dataLoadedCallbacks EXCEPT ![c] = <<>>]
          /\ UNCHANGED <<ticketsCache, studentsCache>>
  /\ UNCHANGED <<database, pendingTickets, pendingStudents, pendingPassword>>
  /\ StartupOnly

\* Promise.all rejects: lines 96-103
InitialFetchFails(c) ==
  /\ loading[c] = "fetching"
  /\ LoadFromLocal(c)
  /\ MarkReady(c)
  /\ loading' = [loading EXCEPT ![c] = "settled"]
  /\ InvokeCallback(c, loadTicketsFromLocal(localTickets[c]), Len(dataLoadedCallbacks[c]))
  /\ dataLoadedCallbacks' =
       [dataLoadedCallbacks EXCEPT ![c] = IF TriggerKeepsQueue(c) THEN @ ELSE <<>>]
  /\ UNCHANGED <<database, pendingTickets, pendingStudents, pendingPassword>>
  /\ StartupOnly

\* what an error callback leaves alone: every variable but syncError and the
\* array of its subscription
ErrorLogged(c) ==
  /\ syncError' = [syncError EXCEPT ![c] = TRUE]
  /\ Toast(c, "")
  /\ Stay
  /\ UNCHANGED <<configured, database, startupVars, refreshed, passwordVars, pendingHash,
                 now, sessionVars, studentSide, fn, nextTicketId, ticketStore, inflight,
                 formVars>>

\* an error callback of tickets that empties the array
TicketsSyncErrorClears(c) ==
  /\ RemoteMode(c)
  /\ ticketsCache' = [ticketsCache EXCEPT ![c] = <<>>]
  /\ ErrorLogged(c)

\* lines 68-70: the error callback of the tickets subscription
TicketsSyncError(c) ==
  /\ RemoteMode(c)
  /\ ErrorLogged(c)
  /\ UNCHANGED ticketsCache

\* lines 80-82: the error callback of the students subscription
StudentsSyncError(c) ==
  /\ RemoteMode(c)
  /\ ErrorLogged(c)
  /\ UNCHANGED ticketsCache

\* line 2062: a hashchange event, location.hash now naming p
hashchange(c, p) ==
  /\ loading[c] # "document"
  /\ p # page[c]
  /\ handleRouting(c, p, ticketsCache[c])
  /\ UNCHANGED <<database, startupVars, pendingTickets, pendingStudents, pendingPassword,
                 ticketsCache,
                 studentsCache>>
  /\ StartupOnly

NextStartup ==
  \/ \E c \in Clients : DOMContentLoaded(c)
  \/ \E c \in Clients : InitialFetchSucceeds(c)
  \/ \E c \in Clients : InitialFetchFails(c)
  \/ \E c \in Clients, p \in StartPages : hashchange(c, p)
  \/ \E c \in Clients : TicketsValueEvent(c)
  \/ \E c \in Clients : StudentsValueEvent(c)
  \/ \E id \in 1..MaxTickets, memo \in MemoInputs : PeerCompleteTicket(id, memo)
  \/ PeerSaveStudent([className |-> <<"4", "S">>, initials |-> <<"a">>,
                      birthday |-> <<"0", "1", "0", "1">>])
  \/ \E c \in Clients : TicketsSyncError(c)
  \/ \E c \in Clients : StudentsSyncError(c)
  \/ \E c \in Clients : PasswordValueEvent(c)

SpecStartup == InitStartup /\ [][NextStartup]_vars

\* the document finishes loading, and the initial fetch completes one way or
\* the other
SpecStartupFair ==
  /\ SpecStartup
  /\ \A c \in Clients :
       /\ WF_vars(DOMContentLoaded(c))
       /\ WF_vars(InitialFetchSucceeds(c) \/ InitialFetchFails(c))

\* ------------------------------------------------------------------------
\* Sessions: login, logout, and the pages handleRouting guards
\* ------------------------------------------------------------------------
\* the pages location.hash may name; "student-detail" and "teacher-detail"
\* stand for the hash with ?id=1
Pages ==
  {"top", "student-login", "student-mypage", "student-detail", "student",
   "teacher-login", "teacher-settings", "teacher-students", "teacher", "teacher-detail"}

\* what the fields of the student login page may hold
LoginForms ==
  [className : {<<>>, <<"4", "S">>}, initials : {<<>>, <<"a">>, <<"B">>},
   birthday : {<<"0", "1", "0", "1">>, <<"0", "1", "0", "2">>, <<"0", "1">>}]

\* what login and logout leave alone
SessionOnly ==
  UNCHANGED <<configured, database, startupVars, refreshed, syncError, localPassword,
              remotePassword, pendingPassword, passwordModal, pendingHash, now,
              studentSide, fn, nextTicketId, ticketStore, ticketsCache, inflight,
              formVars>>

\* the login button of the student login page: studentLogin
studentLogin(c, form) ==
  /\ page[c] = "student-login"
  /\ LET birthday == trim(form.birthday)
         student == findStudent(studentsCache[c], form.className, form.initials, birthday)
     IN IF form.className = <<>>
        THEN Toast(c, "classRequired") /\ Stay /\ UNCHANGED studentSession
        ELSE IF form.initials = <<>>
        THEN Toast(c, "initialsRequired") /\ Stay /\ UNCHANGED studentSession
        ELSE IF birthday = <<>> \/ ~TestFourDigits(birthday)
        THEN Toast(c, "birthdayInvalid") /\ Stay /\ UNCHANGED studentSession
        ELSE IF student = 0
        THEN Toast(c, "wrongPassword") /\ Stay /\ UNCHANGED studentSession
        ELSE /\ studentSession' =
                  [studentSession EXCEPT ![c] = studentsCache[c][student]["id"]]
             /\ Toast(c, "loggedIn")
             /\ Show(c, "student-mypage", Hide(c))
  /\ SessionOnly
  /\ UNCHANGED <<teacherSession, teacherPasswordCache>>

\* studentLogout
studentLogout(c) ==
  /\ studentSession' = [studentSession EXCEPT ![c] = NoId]
  /\ Toast(c, "")
  /\ Show(c, "top", Hide(c))
  /\ SessionOnly
  /\ UNCHANGED <<teacherSession, teacherPasswordCache>>

\* the login button of the teacher login page: teacherLogin, the field
\* holding password
teacherLogin(c, password) ==
  /\ page[c] = "teacher-login"
  /\ teacherPasswordCache' = [teacherPasswordCache EXCEPT ![c] = getTeacherPassword(c)]
  /\ IF password = getTeacherPassword(c)
     THEN /\ teacherSession' = [teacherSession EXCEPT ![c] = TRUE]
          /\ Toast(c, "loggedIn")
          /\ Show(c, "teacher", Hide(c))
     ELSE /\ Toast(c, "wrongPassword")
          /\ Stay
          /\ UNCHANGED teacherSession
  /\ SessionOnly
  /\ UNCHANGED studentSession

\* teacherLogout
teacherLogout(c) ==
  /\ teacherSession' = [teacherSession EXCEPT ![c] = FALSE]
  /\ Toast(c, "")
  /\ Show(c, "top", Hide(c))
  /\ SessionOnly
  /\ UNCHANGED <<studentSession, teacherPasswordCache>>

\* a tab that holds no session, the store holding one ticket and no student
\* or one, and no teacher password or one
InitSession ==
  \E remote \in BOOLEAN, password \in {"", "pw1"}, students \in StoredStudents :
    InitWith([remote |-> remote, student |-> [c \in Clients |-> NoId],
              teacher |-> [c \in Clients |-> FALSE], password |-> password],
             <<StoredTicket(1, 1)>>, students)

NextSession ==
  \/ \E c \in Clients, p \in Pages : hashchange(c, p)
  \/ \E c \in Clients, form \in LoginForms : studentLogin(c, form)
  \/ \E c \in Clients : studentLogout(c)
  \/ \E c \in Clients, password \in PasswordInputs : teacherLogin(c, password)
  \/ \E c \in Clients : teacherLogout(c)
  \/ \E c \in Clients : showPasswordChangeModal(c)
  \/ \E c \in Clients, current \in PasswordInputs, new \in PasswordInputs,
         confirm \in PasswordInputs :
       changeTeacherPassword(c, current, new, confirm)
  \/ \E c \in Clients : PasswordSetResolves(c)
  \/ \E c \in Clients : PasswordSetRejected(c)
  \/ \E c \in Clients : PasswordValueEvent(c)
  \/ \E password \in {"pw1", "pw2"} : PeerChangePassword(password)

SpecSession == InitSession /\ [][NextSession]_vars

\* ------------------------------------------------------------------------
\* Properties of the ticket flows
\* ------------------------------------------------------------------------
\* the stored collection behind client c: the remote store, or its localStorage
StoreOf(c) ==
  IF RemoteMode(c) THEN ObjectValues(remoteTickets)
  ELSE loadTicketsFromLocal(localTickets[c])

\* the tickets of arr with this id and this status
WithStatus(arr, id, status) ==
  {i \in 1..Len(arr) : arr[i]["id"] = id /\ arr[i]["status"] = status}

\* the open tickets of student s in arr, the ticket excludeId left out
OpenTickets(arr, s, excludeId) ==
  {i \in 1..Len(arr) :
     /\ arr[i]["studentId"] = s
     /\ arr[i]["status"] = "submitted"
     /\ arr[i]["id"] # excludeId}

\* C1: once a stored ticket has status 'done', no step of any client gives it
\* status 'submitted' again.
C1_DoneNeverSubmitted ==
  [][\A c \in Clients, id \in 1..MaxTickets :
       WithStatus(StoreOf(c), id, "done") # {}
         => WithStatus(StoreOf(c), id, "submitted")' = {}]_vars

\* C2: in every reachable state every student has at most
\* MAX_TICKETS_PER_STUDENT stored tickets with status 'submitted'.
C2_AtMostThreeOpen ==
  \A c \in Clients, s \in StudentIds :
    Cardinality(OpenTickets(StoreOf(c), s, NoId)) <= MAX_TICKETS_PER_STUDENT

\* C3: when the student of client c has 3 open tickets in memory and asks to
\* confirm a new ticket, the modal stays closed, a filled form is answered with
\* the limit message, no write is issued, and memory, localStorage and the
\* remote store are unchanged.
C3_FourthSubmissionRejected ==
  [][\A c \in Clients, reason \in FormInputs :
       ( /\ Cardinality(OpenTickets(ticketsCache[c], studentSession[c], NoId))
              >= MAX_TICKETS_PER_STUDENT
         /\ currentEditingTicketId[c] = NoId
         /\ showConfirmModal(c, reason) )
       => /\ ~confirmOpen'[c]
          /\ reason # "" => toast'[c] = "limit"
          /\ UNCHANGED <<ticketsCache, localTickets, remoteTickets, inflight,
                         nextTicketId, pendingTickets>>]_vars

\* C3 witness: the limit message answers a new ticket of a student with 3 open
\* tickets in memory
C3_Witness ==
  \E c \in Clients :
    /\ toast[c] = "limit"
    /\ page[c] = "student"
    /\ currentEditingTicketId[c] = NoId
    /\ Cardinality(OpenTickets(ticketsCache[c], studentSession[c], NoId))
         = MAX_TICKETS_PER_STUDENT

\* C4: getActiveTicketCount is the number of in-memory tickets of the student
\* with status 'submitted' and an id other than excludeId, and checkTicketLimit
\* accepts exactly when that number is below 3.
C4_CountAndLimit ==
  \A c \in Clients, s \in StudentIds, x \in 0..MaxTickets :
    /\ getActiveTicketCount(ticketsCache[c], s, x)
         = Cardinality(OpenTickets(ticketsCache[c], s, x))
    /\ checkTicketLimit(ticketsCache[c], s, x)
         <=> Cardinality(OpenTickets(ticketsCache[c], s, x)) < MAX_TICKETS_PER_STUDENT

\* C4 witness: a new ticket is being confirmed by a student who holds 2 open
\* tickets and a done one, beside a ticket of another student
C4_Witness ==
  \E c \in Clients :
    /\ confirmOpen[c]
    /\ currentEditingTicketId[c] = NoId
    /\ Cardinality(OpenTickets(ticketsCache[c], studentSession[c], NoId)) = 2
    /\ \E i \in 1..Len(ticketsCache[c]) :
         /\ ticketsCache[c][i]["studentId"] = studentSession[c]
         /\ ticketsCache[c][i]["status"] = "done"
    /\ \E i \in 1..Len(ticketsCache[c]) :
         ticketsCache[c][i]["studentId"] # studentSession[c]

\* C5: when a remote set of a ticket fails, the in-memory record of that
\* ticket is as it was before the operation that issued the write began.
C5_FailedSetLeavesMemory ==
  [][\A c \in Clients :
       TicketSetRejected(c)
         => Lookup(ticketsCache[c], Head(inflight[c]).rec["id"])
              = Head(inflight[c]).before]_vars

\* the fields a handler assigns before it calls upsertTicket
AssignedBy(op) ==
  IF op = "submitTicket"
  THEN {"id", "studentId", "questionReason", "teacherMemo", "doneAt", "status"}
  ELSE IF op = "completeStudentTicket" THEN {"status", "doneAt", "completedByStudent"}
  ELSE IF op = "completeTicket" THEN {"teacherMemo", "status", "doneAt"}
  ELSE {"teacherMemo"}

\* the fields of its record that the call with payload o.rec changed
ChangedBy(o) ==
  {k \in DOMAIN o.rec :
     o.before = <<>> \/ k \notin DOMAIN o.before[1] \/ o.rec[k] # o.before[1][k]}

C18_CreatedAtKept ==
  \A c \in Clients :
    \A i \in 1..Len(StoreOf(c)) :
      StoreOf(c)[i]["id"] \in {1, 2}
        => StoreOf(c)[i]["createdAt"] = StoredTicket(1, 1)["createdAt"]

\* the stored record of this ticket id, as <<>> or <<record>>
Stored(c, id) == Lookup(StoreOf(c), id)

\* C19: a stored ticket has no doneAt while its status is 'submitted' and has
\* one when its status is 'done', and once a stored ticket has a doneAt no
\* step changes or clears it while the ticket is stored.
C19_DoneAtSetOnce ==
  /\ [](\A c \in Clients, id \in 1..MaxTickets :
          Stored(c, id) # <<>>
            => (Stored(c, id)[1]["status"] = "done" <=> Stored(c, id)[1]["doneAt"] # 0))
  /\ [][\A c \in Clients, id \in 1..MaxTickets :
         ( /\ Stored(c, id) # <<>>
           /\ Stored(c, id)[1]["doneAt"] # 0
           /\ Stored(c, id)' # <<>> )
         => Stored(c, id)'[1]["doneAt"] = Stored(c, id)[1]["doneAt"]]_vars

\* the record says that the student closed the ticket
ClosedByStudent(rec) ==
  "completedByStudent" \in DOMAIN rec /\ rec["completedByStudent"]

\* C20: a stored ticket that is 'done' without completedByStudent, which is
\* how completeTicket leaves a ticket the teacher closed, never has
\* completedByStudent = true afterwards.
C20_TeacherClosedStays ==
  [][\A c \in Clients, id \in 1..MaxTickets :
       ( /\ Stored(c, id) # <<>>
         /\ Stored(c, id)[1]["status"] = "done"
         /\ ~ClosedByStudent(Stored(c, id)[1])
         /\ Stored(c, id)' # <<>> )
       => ~ClosedByStudent(Stored(c, id)'[1])]_vars

\* the step applies a write of a student-role operation of client c to the
\* store: submitTicket or completeStudentTicket in local mode, the resolution
\* of the set either issued in remote mode
StudentWriteApplied(c) ==
  \/ ~RemoteMode(c) /\ (submitTicket(c) \/ completeStudentTicket(c))
  \/ /\ TicketSetResolves(c)
     /\ Head(inflight[c]).op \in {"submitTicket", "completeStudentTicket"}

\* C21: a write of a student-role operation (submitTicket for an edit,
\* completeStudentTicket) leaves the teacherMemo of every ticket that is stored
\* before and after it as it was.
C21_StudentKeepsTeacherMemo ==
  [][\A c \in Clients, id \in 1..MaxTickets :
       ( /\ StudentWriteApplied(c)
         /\ Stored(c, id) # <<>>
         /\ Stored(c, id)' # <<>> )
       => Stored(c, id)'[1]["teacherMemo"] = Stored(c, id)[1]["teacherMemo"]]_vars

\* ------------------------------------------------------------------------
\* Properties of student management
\* ------------------------------------------------------------------------
\* the stored students behind client c
StudentStoreOf(c) ==
  IF RemoteMode(c) THEN ObjectValues(remoteStudents)
  ELSE loadStudentsFromLocal(localStudents[c])

\* two characters that differ at most in letter case
SameLetter(x, y) ==
  x = y \/ {x, y} \in {{"a", "A"}, {"b", "B"}, {"s", "S"}}

\* two strings that are equal ignoring letter case
EqualIgnoringCase(a, b) ==
  /\ Len(a) = Len(b)
  /\ \A i \in 1..Len(a) : SameLetter(a[i], b[i])

\* arr holds a student of this class and these initials under another id
HasDuplicate(arr, className, initials, id) ==
  \E i \in 1..Len(arr) :
    /\ arr[i]["className"] = className
    /\ EqualIgnoringCase(arr[i]["initials"], initials)
    /\ arr[i]["id"] # id

\* a step that issues no write of a student and leaves the modal as it is
NoStudentWrite ==
  UNCHANGED <<inflight, studentsCache, localStudents, remoteStudents, nextStudentId,
              studentModal>>

\* the form passes the field checks of saveStudent
ValidStudentForm(form) ==
  /\ form.className # <<>>
  /\ \E i \in 1..Len(form.initials) : form.initials[i] # " "
  /\ \E str \in BirthdayInputs :
       /\ TestFourDigits(str)
       /\ form.birthday = str

\* C8 as stated: saveStudent rejects, issuing no write, exactly when memory
\* holds a student of the same class and the same initials ignoring letter
\* case under another id.
C8_RejectsExactlyOnDuplicate ==
  [][\A c \in Clients, form \in StudentForms :
       saveStudent(c, form)
         => (NoStudentWrite
               <=> HasDuplicate(studentsCache[c], form.className, form.initials,
                                studentModal[c].id))]_vars

\* C8 amended: for a form that passes the field checks, saveStudent rejects,
\* issuing no write, exactly when memory holds a student of the same class
\* and the same initials, trimmed and ignoring letter case, under another id.
C8_ValidFormRejectedExactlyOnDuplicate ==
  [][\A c \in Clients, form \in StudentForms :
       (ValidStudentForm(form) /\ saveStudent(c, form))
         => (NoStudentWrite
               <=> HasDuplicate(studentsCache[c], form.className, trim(form.initials),
                                studentModal[c].id))]_vars

\* C8 witness: an edit was refused for the pair of another student
C8_Witness ==
  \E c \in Clients :
    /\ toast[c] = "duplicate"
    /\ studentModal[c].open
    /\ studentModal[c].id # NoId
    /\ getStudentById(studentsCache[c], studentModal[c].id) # 0

\* C9: in every reachable state no two stored students with different ids
\* have the same class and the same initials ignoring letter case.
C9_UniqueClassAndInitials ==
  \A c \in Clients :
    \A i, j \in 1..Len(StudentStoreOf(c)) :
      ( /\ StudentStoreOf(c)[i]["className"] = StudentStoreOf(c)[j]["className"]
        /\ EqualIgnoringCase(StudentStoreOf(c)[i]["initials"],
                             StudentStoreOf(c)[j]["initials"]) )
      => StudentStoreOf(c)[i]["id"] = StudentStoreOf(c)[j]["id"]

\* the spellings of str in any letter case
CaseVariants(str) ==
  {v \in [1..Len(str) -> {"a", "A", "b", "B", "s", "S"}] :
     \A i \in 1..Len(str) : SameLetter(v[i], str[i])}

\* the record saveStudent hands to upsertStudent
StudentOf(c, form) ==
  [id |-> IF studentModal[c].id # NoId THEN studentModal[c].id ELSE nextStudentId,
   className |-> form.className, initials |-> toUpperCase(trim(form.initials)),
   birthday |-> trim(form.birthday)]

C6_UpsertTwice ==
  \A c \in Clients :
    (fn.op = "upsertTicket" /\ fn.times = 2)
    => LET held == {i \in 1..Len(StoreOf(c)) : StoreOf(c)[i]["id"] = fn.ticket["id"]}
       IN /\ Cardinality(held) = 1
          /\ \A i \in held :
               /\ DOMAIN StoreOf(c)[i] = DOMAIN fn.first
               /\ \A k \in DOMAIN fn.first \ {"updatedAt"} :
                    StoreOf(c)[i][k] = fn.first[k]
               /\ StoreOf(c)[i]["updatedAt"] >= fn.first["updatedAt"]

\* the record with this id that a call of upsertTicket by c left in the
\* store it writes to, as <<>> or <<record>>
WrittenBy(c, id) ==
  IF RemoteMode(c) THEN remoteTickets'[id] ELSE Lookup(ticketsCache'[c], id)

\* C17: upsertTicket(t) looks t.id up in memory. If a record is held, the
\* record written has the fields of t, the other fields of the held record
\* (createdAt among them when t carries none) and updatedAt = now; if none is
\* held, it has the fields of t with createdAt = updatedAt = now. The entity
\* returned is the record written.
C17_UpsertTicketMerge ==
  [][\A c \in Clients, t \in TicketArguments :
       CallUpsertTicket(c, t)
       => LET idx == getTicketById(ticketsCache[c], t["id"])
              held == ticketsCache[c][idx]
              w == WrittenBy(c, t["id"])
          IN /\ Len(w) = 1
             /\ fn'.first = w[1]
             /\ w[1]["updatedAt"] = now
             /\ IF idx > 0
                THEN /\ DOMAIN w[1] = DOMAIN held \cup DOMAIN t \cup {"updatedAt"}
                     /\ \A k \in DOMAIN t \ {"updatedAt"} : w[1][k] = t[k]
                     /\ \A k \in DOMAIN held \ (DOMAIN t \cup {"updatedAt"}) :
                          w[1][k] = held[k]
                ELSE /\ DOMAIN w[1] = DOMAIN t \cup {"createdAt", "updatedAt"}
                     /\ \A k \in DOMAIN t \ {"createdAt", "updatedAt"} : w[1][k] = t[k]
                     /\ w[1]["createdAt"] = now]_vars

\* C17 witness: form data, which carries no createdAt, was merged over a held
\* record that a student had closed
C17_Witness ==
  \E c \in Clients :
    /\ fn.op = "upsertTicket"
    /\ fn.times = 1
    /\ "createdAt" \notin DOMAIN fn.ticket
    /\ fn.first["createdAt"] < fn.first["updatedAt"]
    /\ "completedByStudent" \in DOMAIN fn.first
    /\ RemoteMode(c)
    /\ remoteTickets[fn.ticket["id"]] = <<fn.first>>

\* the students of arr that match the credentials
Matching(arr, className, initials, birthday) ==
  {i \in 1..Len(arr) :
     /\ arr[i]["className"] = className
     /\ EqualIgnoringCase(arr[i]["initials"], initials)
     /\ arr[i]["birthday"] = birthday}

\* C7: findStudent returns the first in-memory student with exactly this
\* class, exactly this birthday and these initials ignoring letter case, and
\* null when there is none.
C7_FindStudent ==
  \A c \in Clients :
    fn.op = "findStudent"
    => LET hits == Matching(studentsCache[c], fn.className, fn.initials, fn.birthday)
       IN IF hits = {} THEN fn.result = 0
          ELSE /\ fn.result \in hits
               /\ \A i \in hits : fn.result <= i

\* C7 witness: of two matching students the first was returned, for initials
\* given in the other letter case, beside a call that returned null
C7_Witness ==
  \E c \in Clients :
    /\ fn.op = "findStudent"
    /\ fn.result = 1
    /\ Cardinality(Matching(studentsCache[c], fn.className, fn.initials, fn.birthday)) = 2
    /\ studentsCache[c][1]["initials"] # fn.initials

\* C10: in local mode, reloading the collection that a write put into local
\* persistence yields the in-memory collection: the same records with the
\* same field values in the same order. A call whose setItem threw has put
\* nothing there.
C10_LocalRoundTrip ==
  \A c \in Clients :
    (~RemoteMode(c) /\ fn.op # "upsertTicketThrew")
    => /\ localTickets[c].present
            => loadTicketsFromLocal(localTickets[c]) = ticketsCache[c]
       /\ localStudents[c].present
            => loadStudentsFromLocal(localStudents[c]) = studentsCache[c]

\* C10 witness: a local write of a ticket left two records, one with doneAt
\* null and one closed
C10_Witness ==
  \E c \in Clients :
    /\ ~RemoteMode(c)
    /\ fn.op = "upsertTicket"
    /\ localTickets[c].present
    /\ Len(loadTicketsFromLocal(localTickets[c])) >= 2
    /\ \E i, j \in 1..Len(ticketsCache[c]) :
         /\ ticketsCache[c][i]["doneAt"] = 0
         /\ ticketsCache[c][j]["doneAt"] # 0

\* ------------------------------------------------------------------------
\* Properties of startup
\* ------------------------------------------------------------------------
\* C13: the callback passed to waitForData before Ready stays queued, not
\* called, until Ready; once Ready is reached it has been called exactly once
\* and the queue is empty, on every startup path and whether or not the
\* callback throws.
C13_CallbacksOnce ==
  \A c \in Clients :
    /\ loading[c] = "fetching"
         => /\ ~firebaseReady[c]
            /\ invoked[c] = 0
            /\ dataLoadedCallbacks[c] = <<"handleRouting">>
    /\ firebaseReady[c] => (invoked[c] = 1 /\ dataLoadedCallbacks[c] = <<>>)

\* C14: every run of handleRouting, from the hashchange listener or from the
\* callback of waitForData, happens with firebaseReady true.
C14_RoutingOnlyWhenReady ==
  [][\A c \in Clients :
       ((\E p \in StartPages : hashchange(c, p)) \/ invoked'[c] > invoked[c])
       => firebaseReady'[c]]_vars

\* C15: startup reaches Ready; without a usable remote store Ready is set
\* inside the DOMContentLoaded handler; firebaseReady never returns to false.
C15_ReadyForever ==
  /\ <>(\A c \in Clients : firebaseReady[c])
  /\ [][\A c \in Clients : firebaseReady[c] => firebaseReady'[c]]_vars
  /\ [][\A c \in Clients :
         (DOMContentLoaded(c) /\ ~database'[c]) => firebaseReady'[c]]_vars

\* C15 witness: Ready after the initial fetch failed, memory holding what
\* localStorage held and not what the remote store holds
C15_Witness ==
  \E c \in Clients :
    /\ firebaseReady[c]
    /\ RemoteMode(c)
    /\ loading[c] = "settled"
    /\ ticketsCache[c] = loadTicketsFromLocal(localTickets[c])
    /\ ticketsCache[c] # ObjectValues(remoteTickets)

\* C16: a 'value' event of either subscription replaces the in-memory
\* collection; before Ready it refreshes no view, after Ready it calls
\* refreshCurrentView, which renders the ticket of teacher-detail again.
C16_RefreshOnlyWhenReady ==
  [][\A c \in Clients :
       /\ TicketsValueEvent(c) => ticketsCache'[c] = ObjectValues(remoteTickets)
       /\ StudentsValueEvent(c) => studentsCache'[c] = ObjectValues(remoteStudents)
       /\ (TicketsValueEvent(c) \/ StudentsValueEvent(c))
            => IF firebaseReady[c]
               THEN /\ refreshed'[c]
                    /\ (page[c] = "teacher-detail"
                           /\ getTicketById(ticketsCache'[c], currentDetailTicketId[c]) > 0)
                         => teacherFooter'[c] =
                              IF ticketsCache'[c][getTicketById(ticketsCache'[c],
                                   currentDetailTicketId[c])]["status"] = "done"
                              THEN "done" ELSE "open"
               ELSE /\ refreshed'[c] = refreshed[c]
                    /\ UNCHANGED viewVars]_vars

\* C16 witness: snapshots were taken in before Ready without a refresh, and
\* after Ready an event rendered teacher-detail again, the ticket now done
C16_Witness ==
  \E c \in Clients :
    /\ refreshed[c]
    /\ page[c] = "teacher-detail"
    /\ teacherFooter[c] = "done"
    /\ invoked[c] = 1
    /\ ticketsCache[c] = ObjectValues(remoteTickets)

\* the array holds exactly the records of the snapshot data: the record of
\* every path that holds one, once, and nothing else
SameRecords(arr, data) ==
  /\ \A id \in DOMAIN data : Lookup(arr, id) = data[id]
  /\ Len(arr) = Cardinality({id \in DOMAIN data : data[id] # <<>>})

\* C22: in remote mode, when a 'value' event of the tickets or of the students
\* subscription has been processed, the in-memory collection holds exactly the
\* records of the snapshot it delivered, and is empty when that snapshot is
\* null, whatever memory held before.
C22_SnapshotReplacesMemory ==
  [][\A c \in Clients :
       /\ TicketsValueEvent(c)
            => /\ SameRecords(ticketsCache'[c], remoteTickets)
               /\ IsNull(remoteTickets) => ticketsCache'[c] = <<>>
       /\ StudentsValueEvent(c)
            => /\ SameRecords(studentsCache'[c], remoteStudents)
               /\ IsNull(remoteStudents) => studentsCache'[c] = <<>>]_vars

\* C22 witness: after startup fell back to localStorage, later snapshots have
\* been processed: memory holds the ticket another client closed, which
\* localStorage holds open, and the student another client registered
C22_Witness ==
  \E c \in Clients :
    /\ RemoteMode(c)
    /\ refreshed[c]
    /\ ~pendingTickets[c]
    /\ ~pendingStudents[c]
    /\ localTickets[c].present
    /\ loadTicketsFromLocal(localTickets[c]) # <<>>
    /\ loadTicketsFromLocal(localTickets[c])[1]["status"] = "submitted"
    /\ SameRecords(ticketsCache[c], remoteTickets)
    /\ Lookup(ticketsCache[c], 1) # <<>>
    /\ Lookup(ticketsCache[c], 1)[1]["status"] = "done"
    /\ SameRecords(studentsCache[c], remoteStudents)
    /\ studentsCache[c] # <<>>

\* C23: the error callback of the tickets or of the students subscription
\* leaves both in-memory collections, firebaseReady and the queue of
\* callbacks as they were, and a snapshot that the subscription delivers after
\* an error is applied like any other.
C23_SyncErrorKeepsState ==
  [][\A c \in Clients :
       /\ (TicketsSyncError(c) \/ StudentsSyncError(c))
            => UNCHANGED <<ticketsCache, studentsCache, firebaseReady,
                           dataLoadedCallbacks>>
       /\ (syncError[c] /\ TicketsValueEvent(c))
            => SameRecords(ticketsCache'[c], remoteTickets)
       /\ (syncError[c] /\ StudentsValueEvent(c))
            => SameRecords(studentsCache'[c], remoteStudents)]_vars

\* C23 witness: an error callback ran while memory held the first snapshot,
\* and the snapshot with the ticket another client closed afterwards has been
\* applied
C23_Witness ==
  \E c \in Clients :
    /\ syncError[c]
    /\ firebaseReady[c]
    /\ ~pendingTickets[c]
    /\ SameRecords(ticketsCache[c], remoteTickets)
    /\ Lookup(ticketsCache[c], 1) # <<>>
    /\ Lookup(ticketsCache[c], 1)[1]["status"] = "done"

\* localStorage holds no blob under the key, or one JSON.parse refuses
Unreadable(item) == ~item.present \/ ~Parses(item.text)

\* the step is startup through localStorage: initializeFirebaseData of a build
\* without the remote store or whose initFirebase failed, or the catch branch
\* of the initial fetch
LocalStartup(c) ==
  \/ DOMContentLoaded(c) /\ ~database'[c]
  \/ InitialFetchFails(c)

\* C24: loadTicketsFromLocal and loadStudentsFromLocal return the empty
\* collection for a blob that is missing or cannot be parsed, and startup
\* through localStorage reaches Ready, with an empty in-memory collection for
\* each such blob.
C24_UnreadableBlobIsEmpty ==
  /\ [](\A c \in Clients :
          /\ Unreadable(localTickets[c]) => loadTicketsFromLocal(localTickets[c]) = <<>>
          /\ Unreadable(localStudents[c])
               => loadStudentsFromLocal(localStudents[c]) = <<>>)
  /\ [][\A c \in Clients :
         LocalStartup(c)
           => /\ firebaseReady'[c]
              /\ Unreadable(localTickets[c]) => ticketsCache'[c] = <<>>
              /\ Unreadable(localStudents[c]) => studentsCache'[c] = <<>>]_vars

\* C24 witness: startup through localStorage has reached Ready, both blobs
\* being ones that JSON.parse refuses, and both arrays are empty
C24_Witness ==
  \E c \in Clients :
    /\ ~RemoteMode(c)
    /\ loading[c] = "settled"
    /\ firebaseReady[c]
    /\ localTickets[c].present /\ ~Parses(localTickets[c].text)
    /\ localStudents[c].present /\ ~Parses(localStudents[c].text)
    /\ ticketsCache[c] = <<>>
    /\ studentsCache[c] = <<>>

\* ------------------------------------------------------------------------
\* Properties of the teacher password and of the sessions
\* ------------------------------------------------------------------------
\* C25: when the remote set of the teacher password is rejected, the failure
\* is shown, the flow stops: the modal stays open and no success message is
\* shown, and neither localStorage nor the in-memory password takes the new
\* value.
C25_RejectedWriteAborts ==
  [][\A c \in Clients :
       PasswordSetRejected(c)
         => /\ toast'[c] = "saveFailed"
            /\ passwordModal'[c]
            /\ localPassword'[c] = localPassword[c]
            /\ teacherPasswordCache'[c] = teacherPasswordCache[c]]_vars

\* C26: a student-only page is shown only while a student session is present
\* and a teacher-only page only while the teacher flag is set; handleRouting
\* answers the hash of a protected page without its session by the matching
\* login page; the student session appears only in a studentLogin for which
\* findStudent found the student, and disappears only in studentLogout; the
\* teacher flag is set only in a teacherLogin whose input is the password
\* getTeacherPassword returns, and cleared only in teacherLogout.
C26_SessionsGuardPages ==
  /\ [](\A c \in Clients :
          /\ page[c] \in {"student-mypage", "student-detail", "student"}
               => studentSession[c] # NoId
          /\ page[c] \in {"teacher", "teacher-detail", "teacher-students",
                           "teacher-settings"}
               => teacherSession[c])
  /\ [][\A c \in Clients, p \in Pages :
         hashchange(c, p)
           => /\ ( /\ p \in {"student-mypage", "student-detail", "student"}
                   /\ studentSession[c] = NoId )
                 => page'[c] = "student-login"
              /\ ( /\ p \in {"teacher", "teacher-detail", "teacher-students",
                               "teacher-settings"}
                   /\ ~teacherSession[c] )
                 => page'[c] = "teacher-login"]_vars
  /\ [][\A c \in Clients :
         studentSession'[c] # studentSession[c]
           => IF studentSession'[c] = NoId
              THEN studentLogout(c)
              ELSE \E form \in LoginForms :
                     /\ studentLogin(c, form)
                     /\ findStudent(studentsCache[c], form.className, form.initials,
                                    trim(form.birthday)) # 0
                     /\ studentSession'[c] =
                          studentsCache[c][findStudent(studentsCache[c], form.className,
                                                       form.initials,
                                                       trim(form.birthday))]["id"]]_vars
  /\ [][\A c \in Clients :
         teacherSession'[c] # teacherSession[c]
           => IF teacherSession'[c]
              THEN teacherLogin(c, getTeacherPassword(c))
              ELSE teacherLogout(c)]_vars

\* C26 witness: a student who logged in asked for the teacher's list, was sent
\* to the teacher login page and entered a wrong password there
C26_Witness ==
  \E c \in Clients :
    /\ studentSession[c] # NoId
    /\ ~teacherSession[c]
    /\ page[c] = "teacher-login"
    /\ toast[c] = "wrongPassword"

\* ------------------------------------------------------------------------
\* Properties of the write path, in each mode
\* ------------------------------------------------------------------------
\* C27: when upsertTicket(t) has returned, getTicketById(t.id) returns a record
\* equal to the entity upsertTicket returned, before any remote event is
\* processed.
C27_ReadYourWrites ==
  [][\A c \in Clients, ticket \in TicketArguments :
       CallUpsertTicket(c, ticket)
         => /\ getTicketById(ticketsCache'[c], ticket["id"]) # 0
            /\ Lookup(ticketsCache'[c], ticket["id"])
                 = <<UpsertTicketRecord(ticketsCache[c], ticket, now)>>]_vars

\* C28: when the initial fetch succeeds, the arrays in memory after startup are
\* the ones the subscriptions delivered: the step that settles a successful
\* fetch does not replace them by what localStorage holds, also when a queued
\* callback throws while it runs.
C28_FetchedDataKept ==
  [][\A c \in Clients :
       InitialFetchSucceeds(c)
         => /\ ticketsCache'[c] = ticketsCache[c]
            /\ studentsCache'[c] = studentsCache[c]]_vars

\* C29: in local mode, between operations, the collection localStorage holds
\* for tickets is the array of tickets in memory, and the one it holds for
\* students is the array of students in memory, also after a setItem that
\* failed.
C29_LocalStorageMirrorsMemory ==
  \A c \in Clients :
    ~RemoteMode(c)
      => /\ loadTicketsFromLocal(localTickets[c]) = ticketsCache[c]
         /\ loadStudentsFromLocal(localStudents[c]) = studentsCache[c]

\* ------------------------------------------------------------------------
\* Properties of the ownership of tickets
\* ------------------------------------------------------------------------
\* C30: a write of submitTicket or completeStudentTicket that reaches the
\* store changes only a ticket that was not stored or whose stored studentId
\* is the id of the student session, also after renderStudentDetail refused
\* the ticket of another student.
C30_StudentWritesOwnTickets ==
  [][\A c \in Clients, id \in 1..MaxTickets :
       ( /\ StudentWriteApplied(c)
         /\ Stored(c, id)' # Stored(c, id)
         /\ Stored(c, id) # <<>> )
       => Stored(c, id)[1]["studentId"] = studentSession[c]]_vars

====
